---- MODULE Spec2Model ----
(***************************************************************************)
(* Model of the heka pipeline core: the plugin runners of                  *)
(* pipeline/plugin_runners.go (input, decoder and filter/output runners),  *)
(* the SmtpOutput and FileOutput consumers, and the pack pool and router   *)
(* they talk to.                                                           *)
(*                                                                         *)
(* Specifications:                                                         *)
(*   SpecSup / FairSup   the supervision loops iRunner.Starter and         *)
(*                       foRunner.Starter, sharing globals.Stopping        *)
(*   SpecRetain          foRunner.RetainPack / foRunner.InChan and the     *)
(*                       goroutine InChan starts, across restarts          *)
(*   SpecPipe            input, decoder runner, router, consumers and      *)
(*                       foRunner.Inject moving packs out of and back to   *)
(*                       the pool                                          *)
(*   SpecSandbox /       SandboxDecoder.Decode and its inject callback     *)
(*   FairSandbox         under the decoder runner                          *)
(*   SpecDecoder         dRunner.Start from SetDecoderRunner to wg.Done()  *)
(*   SpecInject          foRunner.Inject into a router that is backed up   *)
(*   SpecFile / FairFile FileOutput.Run: receiver, committer, their        *)
(*                       channels and the file                             *)
(*   SpecLua             the http_status filter script: process_message    *)
(*                       and timer_event on its circular buffer            *)
(***************************************************************************)
EXTENDS Integers, Sequences, FiniteSets, TLC

(***************************************************************************)
(* Bounds.                                                                 *)
(***************************************************************************)
\* largest max_retries value a plugin is configured with
MaxRetriesLimit == 2
\* number of times a plugin's Run returns before it stays running
MaxRuns == 2

\* retain channels (and their goroutines) InChan() creates in one execution
MaxRetainChans == 2
\* packs the router side delivers to the filter/output runner in one execution
MaxDelivered == 2
\* reads of its inbound channel a plugin makes in one Run invocation
MaxReads == 2

\* Globals().PluginChanSize, the capacity of a runner's inbound queue
PluginChanSize == 1
\* P, the number of packs in the pool
PoolSize == 2
\* P of the pipeline whose filter is watched injecting into a full router
InjectPoolSize == 3
\* packs a decoder takes with NewPack during one Decode
MaxExtra == 1
\* capacity of the router's inbound queue
RouterChanSize == 2
\* calls of the inject callback a script makes in one ProcessMessage
MaxInjects == 3

Runners == {"ir", "fo"}

\* the nil *PipelinePack
Nil == 0

\* channel values a plugin's local inChan can hold: the nil channel, the runner's
\* real queue foRunner.inChan, or the index (1, 2, ...) of a retainChan
NoChan == -1
RealChan == 0

VARIABLES
    \* ---- globals (GlobalConfigStruct) ----
    Stopping,       \* globals.Stopping
    sigPending,     \* a shutdown signal has been raised and not yet handled
    \* ---- runner configuration, fixed at construction ----
    restarting,     \* [Runners -> BOOLEAN]: the plugin implements Restarting
    hasWrapper,     \* pc.filterWrappers / pc.outputWrappers holds foRunner.name
    maxRetries,     \* pluginGlobals.Retries.MaxRetries
    foKind,         \* what the foRunner's plugin asserts to: "filter", "output", "none"
    \* ---- runner state ----
    pc,             \* [Runners -> position of the Starter goroutine]
    times,          \* [Runners -> rh.times], the retry helper's counter
    plugin,         \* [Runners -> id of the instance held in pRunnerBase.plugin]
    made,           \* [Runners -> number of instances the wrapper has created]
    runs,           \* [Runners -> number of Run invocations]
    runErr,         \* [Runners -> the last Run returned a non-nil error]
    fails,          \* [Runners -> failed creations in the current createLoop]
    cleanups,       \* [Runners -> CleanupForRestart calls]
    wgDone,         \* [Runners -> wg.Done() calls]
    shutDownCalls,  \* [Runners -> globals.ShutDown() calls made by the runner]
    matcherStarts,  \* foRunner.matcher.Start calls
    logged,         \* [Runners -> last line the runner wrote to the log]
    \* ---- foRunner pack retention and the plugin running under it ----
    retainPack,     \* foRunner.retainPack (Nil or a pack)
    foIn,           \* foRunner.inChan, the runner's real inbound queue
    delivered,      \* number of packs the router side has put on foRunner.inChan
    gor,            \* the goroutines spawned by InChan(), one per retainChan
    handle,         \* the plugin's local inChan: NoChan, RealChan or a retainChan index
    held,           \* the pack the plugin is working on (Nil if none)
    reads,          \* reads the plugin has made in this Run invocation
    readLog,        \* what each of those reads returned and from where
    fresh,          \* the plugin called InChan() since its last read
    promised,       \* the pack retained in the previous Run invocation
    retainedNow,    \* the pack retained in this Run invocation
    readRetained,   \* a retained pack was read and RetainPack not called since
    \* ---- the pipeline: pool, input, decoder runner, router, consumers ----
    pool,           \* inputRecycleChan, the pack pool
    refcount,       \* [Packs -> PipelinePack.RefCount]
    msg,            \* [Packs -> the pack's Message, by whom it matches]
    inHeld,         \* the pack the input is filling (Nil if none)
    drIn,           \* dRunner.inChan
    drPc,           \* position of the decoder runner's goroutine
    drPack,         \* its loop variable pack
    drExtra,        \* packs the decoder has taken with NewPack during this Decode
    drNonNil,       \* Decode's result packs is not nil
    drErr,          \* Decode's result err is not nil
    drSlice,        \* Decode's result packs
    drPacks,        \* the part of packs the forwarding loop has still to send
    drSent,         \* the packs that loop has sent, in order
    routerIn,       \* router.InChan()
    rtPack,         \* the pack the router is dispatching (Nil if none)
    rtTodo,         \* the matching consumers it has still to hand the pack to
    cIn,            \* [Consumers -> the consumer's inbound queue]
    cPack,          \* [Consumers -> the pack the consumer is working on]
    fltNew,         \* the pack the filter is about to inject (Nil if none)
    injecting,      \* packs held by the goroutines spawned by Inject
    dropped,        \* packs no component references any more and nobody recycled
    injectRet,      \* what the last step's foRunner.Inject returned ("none" if no call)
    pipeLog,        \* what the last step wrote to the log ("" if nothing)
    inLog,          \* packs passed to iRunner.Inject, in call order, that the
                    \* router has not taken yet
    fltLog,         \* packs foRunner.Inject accepted, in call order, that the
                    \* router has not taken yet
    \* SandboxDecoder
    sb,             \* s.sb: "live", or "nil" once Shutdown has destroyed it
    sbDead,         \* the script host has returned a fatal error
    sErr,           \* s.err: "nil", "failed" or "fatal"
    sPack,          \* s.pack
    sOwn,           \* s.pack came from NewPack and is not in s.packs
    sPacks,         \* s.packs
    original,       \* the callback's `original`: <<"nil", "", Nil>>, a copy of the
                    \* headers <<"copy", header, Nil>> or a pointer to the message
                    \* of a pack <<"ref", "", pack>>
    hdr,            \* [Packs -> a standard header of the pack's message]
    sbPc,           \* "idle", or "script" while ProcessMessage runs
    inHdr,          \* the input message's header when ProcessMessage was called
    calls,          \* callback calls the script has made in this ProcessMessage
    failedCalls,    \* how many of them returned 1
    taken,          \* packs NewPack has handed out in this Decode
    cbRet,          \* what the last step's callback call returned (-1: none)
    cbBinary,       \* the last callback call had an empty payload_type
    cbSet,          \* the message the last callback call emitted had the header set
    sbRet,          \* sign of what ProcessMessage returned last ("none" before)
    sbWait,         \* the callback is blocked in dr.NewPack(), the pool being empty
    \* ---- dRunner.Start, from its first statement to wg.Done() ----
    inChanClosed,   \* dr.inChan has been closed
    wantsRunner,    \* the decoder implements WantsDecoderRunner
    wantsShutdown,  \* the decoder implements WantsDecoderRunnerShutdown
    setRunnerCalls, \* calls of SetDecoderRunner
    decShutdowns,   \* calls of the decoder's Shutdown
    drDone,         \* calls of wg.Done() by the decoder runner
    closedWith,     \* how many packs were queued on dr.inChan when it was closed
    \* ---- FileOutput.Run: the receiver, the committer and their channels ----
    fIn,            \* the output runner's inChan: the messages of the queued packs
    fInClosed,      \* that channel has been closed
    fSent,          \* messages the router has put on it so far
    fRecycled,      \* pack.Recycle() calls of the receiver
    rcPc,           \* position of the receiver goroutine
    rcBatch,        \* the receiver's outBatch: [buf, data]
    batchClosed,    \* o.batchChan has been closed
    backChan,       \* o.backChan: the buffers queued on it
    cmPc,           \* position of the committer goroutine
    cmBatch,        \* the committer's outBatch
    file,           \* what has been written to o.file, in order
    fileOpen,       \* o.file is open
    accepted,       \* messages appended to a batch so far, in order
    writeFailed,    \* a Write has failed or been truncated
    hups,           \* SIGHUPs received
    wgFile,         \* wg.Done() calls on Run's wait group
    runPc,          \* FileOutput.Run: "wait", "returned" (with a nil error) or "panic"
    fileLog,        \* the last or.LogError of the plugin ("" for none)
    grown,          \* capacities of the arrays append has allocated, oldest first
    \* ---- the http_status filter script under its host ----
    status,         \* the script's global `status`: a circular buffer [time, cells]
    luaMsg,         \* the message of the last process_message call: [ts, sc]
    luaRet,         \* what the last process_message call gave the host
    luaDead,        \* the script has been terminated after an error
    luaCalls,       \* process_message calls so far
    luaTicks,       \* timer_event calls so far
    luaInjected     \* inject_message calls so far

supVars == <<Stopping, sigPending, restarting, hasWrapper, maxRetries, foKind, pc, times,
             plugin, made, runs, runErr, fails, cleanups, wgDone, shutDownCalls,
             matcherStarts, logged>>

supCfg == <<restarting, hasWrapper, maxRetries, foKind>>

retVars == <<retainPack, foIn, delivered, gor, handle, held, reads, readLog, fresh,
             promised, retainedNow, readRetained>>

pipeVars == <<pool, refcount, msg, inHeld, drIn, drPc, drPack, drExtra, drNonNil, drErr,
              drSlice, drPacks, drSent, routerIn, rtPack, rtTodo, cIn, cPack, fltNew,
              injecting, dropped, injectRet, pipeLog, inLog, fltLog>>

\* the Inject calls whose packs are on their way to the router
ordVars == <<inLog, fltLog>>

sbVars == <<sb, sbDead, sErr, sPack, sOwn, sPacks, original, hdr, sbPc, inHdr, calls,
            failedCalls, taken, cbRet, cbBinary, cbSet, sbRet, sbWait>>

\* the decoder runner's life: started, inbound queue closed, shut down, done
lifeVars == <<inChanClosed, wantsRunner, wantsShutdown, setRunnerCalls, decShutdowns,
             drDone, closedWith>>

fileVars == <<fIn, fInClosed, fSent, fRecycled, rcPc, rcBatch, batchClosed, backChan,
             cmPc, cmBatch, file, fileOpen, accepted, writeFailed, hups, wgFile, runPc,
             fileLog, grown>>

luaVars == <<status, luaMsg, luaRet, luaDead, luaCalls, luaTicks, luaInjected>>

restVars == <<lifeVars, fileVars, luaVars>>

vars == <<supVars, retVars, pipeVars, sbVars, restVars>>

(***************************************************************************)
(* globals.ShutDown and the main loop that turns the signal into the       *)
(* Stopping flag.                                                          *)
(***************************************************************************)
\* globals.ShutDown(): raises the shutdown broadcast
ShutDown(r) ==
    /\ sigPending' = TRUE
    /\ shutDownCalls' = [shutDownCalls EXCEPT ![r] = @ + 1]

\* the process's main loop receives the shutdown signal and flips the flag
MainShutdown ==
    /\ sigPending
    /\ ~Stopping
    /\ Stopping' = TRUE
    /\ UNCHANGED <<sigPending, pc, times, plugin, made, runs, runErr, fails, cleanups,
                   wgDone, shutDownCalls, matcherStarts, logged>>
    /\ UNCHANGED <<supCfg, pipeVars, sbVars, restVars>>
    /\ UNCHANGED retVars

\* an operator interrupts the process (SIGINT)
Sigint ==
    /\ ~sigPending
    /\ sigPending' = TRUE
    /\ UNCHANGED <<Stopping, pc, times, plugin, made, runs, runErr, fails, cleanups,
                   wgDone, shutDownCalls, matcherStarts, logged>>
    /\ UNCHANGED <<supCfg, pipeVars, sbVars, restVars>>
    /\ UNCHANGED retVars

(***************************************************************************)
(* RetryHelper: Wait fails once the retries are used up, Reset clears the  *)
(* counter.                                                                *)
(***************************************************************************)
\* rh.Wait() returns an error: the budget of max_retries retries is spent
WaitExhausted(r) == times[r] > maxRetries

\* rh.Wait() sleeps and counts the attempt
WaitCounted(r) == [times EXCEPT ![r] = @ + 1]

\* rh.Reset()
Reset(r) == [times EXCEPT ![r] = 0]

\* deferred wg.Done() and the goroutine's end
Finish(r) ==
    /\ pc' = [pc EXCEPT ![r] = "done"]
    /\ wgDone' = [wgDone EXCEPT ![r] = @ + 1]

\* the runner writes a line to the log (LogError / LogMessage)
Log(r, line) == logged' = [logged EXCEPT ![r] = line]

(***************************************************************************)
(* iRunner.Starter                                                         *)
(***************************************************************************)
\* NewRetryHelper(ir.pluginGlobals.Retries): a bad retry configuration ends the runner
ir_NewRetryHelper ==
    /\ pc["ir"] = "start"
    /\ \/ /\ Log("ir", "error")
          /\ ShutDown("ir")
          /\ Finish("ir")
       \/ /\ pc' = [pc EXCEPT !["ir"] = "loop"]
          /\ UNCHANGED <<sigPending, shutDownCalls, wgDone, logged>>
    /\ UNCHANGED <<Stopping, times, plugin, made, runs, runErr, fails, cleanups,
                   matcherStarts>>
    /\ UNCHANGED <<supCfg, pipeVars, sbVars, restVars>>
    /\ UNCHANGED retVars

\* for !globals.Stopping { ir.Input().Run(ir, h) ...
ir_LoopTop ==
    /\ pc["ir"] = "loop"
    /\ IF Stopping
         THEN /\ Finish("ir")
              /\ UNCHANGED runs
         ELSE /\ pc' = [pc EXCEPT !["ir"] = "running"]
              /\ runs' = [runs EXCEPT !["ir"] = @ + 1]
              /\ UNCHANGED wgDone
    /\ UNCHANGED <<Stopping, sigPending, times, plugin, made, runErr, fails, cleanups,
                   shutDownCalls, matcherStarts, logged>>
    /\ UNCHANGED <<supCfg, pipeVars, sbVars, restVars>>
    /\ UNCHANGED retVars

\* the input's Run returns, with an error or with nil; the runner logs which
ir_RunReturn ==
    /\ pc["ir"] = "running"
    /\ runs["ir"] <= MaxRuns
    /\ \E err \in BOOLEAN :
          /\ runErr' = [runErr EXCEPT !["ir"] = err]
          /\ Log("ir", IF err THEN "error" ELSE "stopped")
    /\ pc' = [pc EXCEPT !["ir"] = "ran"]
    /\ UNCHANGED <<Stopping, sigPending, times, plugin, made, runs, fails, cleanups,
                   wgDone, shutDownCalls, matcherStarts>>
    /\ UNCHANGED <<supCfg, pipeVars, sbVars, restVars>>
    /\ UNCHANGED retVars

\* ir_AfterRun with the ShutDown call of the non-restarting branch left out
ir_AfterRun_NoShutDown ==
    /\ pc["ir"] = "ran"
    /\ IF Stopping \/ ~restarting["ir"]
         THEN /\ Finish("ir")
              /\ UNCHANGED <<cleanups, fails>>
         ELSE /\ cleanups' = [cleanups EXCEPT !["ir"] = @ + 1]
              /\ fails' = [fails EXCEPT !["ir"] = 0]
              /\ pc' = [pc EXCEPT !["ir"] = "create"]
              /\ UNCHANGED wgDone
    /\ UNCHANGED <<Stopping, sigPending, shutDownCalls, logged, times, plugin, made,
                   runs, runErr, matcherStarts>>
    /\ UNCHANGED <<supCfg, pipeVars, sbVars, restVars>>
    /\ UNCHANGED retVars

\* ir_AfterRun without the Stopping check after Run
ir_AfterRun_IgnoresStopping ==
    /\ pc["ir"] = "ran"
    /\ IF restarting["ir"]
         THEN /\ cleanups' = [cleanups EXCEPT !["ir"] = @ + 1]
              /\ fails' = [fails EXCEPT !["ir"] = 0]
              /\ pc' = [pc EXCEPT !["ir"] = "create"]
              /\ UNCHANGED <<sigPending, shutDownCalls, wgDone, logged>>
         ELSE /\ Log("ir", "has stopped, shutting down.")
              /\ ShutDown("ir")
              /\ Finish("ir")
              /\ UNCHANGED <<cleanups, fails>>
    /\ UNCHANGED <<Stopping, times, plugin, made, runs, runErr, matcherStarts>>
    /\ UNCHANGED <<supCfg, pipeVars, sbVars, restVars>>
    /\ UNCHANGED retVars

\* ir_AfterRun with a clean exit treated as the end of the runner
ir_AfterRun_CleanExitEnds ==
    /\ pc["ir"] = "ran"
    /\ IF Stopping \/ ~runErr["ir"]
         THEN /\ Finish("ir")
              /\ UNCHANGED <<sigPending, shutDownCalls, cleanups, fails, logged>>
         ELSE IF restarting["ir"]
                THEN /\ cleanups' = [cleanups EXCEPT !["ir"] = @ + 1]
                     /\ fails' = [fails EXCEPT !["ir"] = 0]
                     /\ pc' = [pc EXCEPT !["ir"] = "create"]
                     /\ UNCHANGED <<sigPending, shutDownCalls, wgDone, logged>>
                ELSE /\ Log("ir", "has stopped, shutting down.")
                     /\ ShutDown("ir")
                     /\ Finish("ir")
                     /\ UNCHANGED <<cleanups, fails>>
    /\ UNCHANGED <<Stopping, times, plugin, made, runs, runErr, matcherStarts>>
    /\ UNCHANGED <<supCfg, pipeVars, sbVars, restVars>>
    /\ UNCHANGED retVars

\* the Stopping check after Run, then CleanupForRestart or ShutDown
ir_AfterRun ==
    /\ pc["ir"] = "ran"
    /\ IF Stopping
         THEN /\ Finish("ir")
              /\ UNCHANGED <<sigPending, shutDownCalls, cleanups, fails, logged>>
         ELSE IF restarting["ir"]
                THEN /\ cleanups' = [cleanups EXCEPT !["ir"] = @ + 1]
                     /\ fails' = [fails EXCEPT !["ir"] = 0]
                     /\ pc' = [pc EXCEPT !["ir"] = "create"]
                     /\ UNCHANGED <<sigPending, shutDownCalls, wgDone, logged>>
                ELSE /\ Log("ir", "has stopped, shutting down.")
                     /\ ShutDown("ir")
                     /\ Finish("ir")
                     /\ UNCHANGED <<cleanups, fails>>
    /\ UNCHANGED <<Stopping, times, plugin, made, runs, runErr, matcherStarts>>
    /\ UNCHANGED <<supCfg, pipeVars, sbVars, restVars>>
    /\ UNCHANGED retVars

\* createLoop, left because globals.Stopping is set
ir_CreateStopped ==
    /\ pc["ir"] = "create"
    /\ Stopping
    /\ Log("ir", "exited, now restarting.")
    /\ pc' = [pc EXCEPT !["ir"] = "loop"]
    /\ UNCHANGED <<Stopping, sigPending, times, plugin, made, runs, runErr, fails,
                   cleanups, wgDone, shutDownCalls, matcherStarts>>
    /\ UNCHANGED <<supCfg, pipeVars, sbVars, restVars>>
    /\ UNCHANGED retVars

\* createLoop: rh.Wait() returns an error
ir_CreateExhausted ==
    /\ pc["ir"] = "create"
    /\ ~Stopping
    /\ WaitExhausted("ir")
    /\ Log("ir", "error")
    /\ ShutDown("ir")
    /\ Finish("ir")
    /\ UNCHANGED <<Stopping, times, plugin, made, runs, runErr, fails, cleanups,
                   matcherStarts>>
    /\ UNCHANGED <<supCfg, pipeVars, sbVars, restVars>>
    /\ UNCHANGED retVars

\* ir_CreateFail with rh.Reset() called on the failure path as well
ir_CreateFail_Resets ==
    /\ pc["ir"] = "create"
    /\ ~Stopping
    /\ ~WaitExhausted("ir")
    /\ times' = Reset("ir")
    /\ fails' = [fails EXCEPT !["ir"] = @ + 1]
    /\ Log("ir", "error")
    /\ UNCHANGED <<Stopping, sigPending, pc, plugin, made, runs, runErr, cleanups,
                   wgDone, shutDownCalls, matcherStarts>>
    /\ UNCHANGED <<supCfg, pipeVars, sbVars, restVars>>
    /\ UNCHANGED retVars

\* createLoop: pw.CreateWithError() fails; log and go round again
ir_CreateFail ==
    /\ pc["ir"] = "create"
    /\ ~Stopping
    /\ ~WaitExhausted("ir")
    /\ times' = WaitCounted("ir")
    /\ fails' = [fails EXCEPT !["ir"] = @ + 1]
    /\ Log("ir", "error")
    /\ UNCHANGED <<Stopping, sigPending, pc, plugin, made, runs, runErr, cleanups,
                   wgDone, shutDownCalls, matcherStarts>>
    /\ UNCHANGED <<supCfg, pipeVars, sbVars, restVars>>
    /\ UNCHANGED retVars

\* ir_CreateOk without rh.Reset(): the attempt stays counted
ir_CreateOk_KeepsCount ==
    /\ pc["ir"] = "create"
    /\ ~Stopping
    /\ ~WaitExhausted("ir")
    /\ made' = [made EXCEPT !["ir"] = @ + 1]
    /\ plugin' = [plugin EXCEPT !["ir"] = made["ir"] + 1]
    /\ times' = WaitCounted("ir")
    /\ Log("ir", "exited, now restarting.")
    /\ pc' = [pc EXCEPT !["ir"] = "loop"]
    /\ UNCHANGED <<Stopping, sigPending, runs, runErr, fails, cleanups, wgDone,
                   shutDownCalls, matcherStarts>>
    /\ UNCHANGED <<supCfg, pipeVars, sbVars, restVars>>
    /\ UNCHANGED retVars

\* createLoop: pw.CreateWithError() succeeds; ir.plugin = p, rh.Reset(), break
ir_CreateOk ==
    /\ pc["ir"] = "create"
    /\ ~Stopping
    /\ ~WaitExhausted("ir")
    /\ made' = [made EXCEPT !["ir"] = @ + 1]
    /\ plugin' = [plugin EXCEPT !["ir"] = made["ir"] + 1]
    /\ times' = Reset("ir")
    /\ Log("ir", "exited, now restarting.")
    /\ pc' = [pc EXCEPT !["ir"] = "loop"]
    /\ UNCHANGED <<Stopping, sigPending, runs, runErr, fails, cleanups, wgDone,
                   shutDownCalls, matcherStarts>>
    /\ UNCHANGED <<supCfg, pipeVars, sbVars, restVars>>
    /\ UNCHANGED retVars

iRunnerStarter ==
    \/ ir_NewRetryHelper
    \/ ir_LoopTop
    \/ ir_RunReturn
    \/ ir_AfterRun
    \/ ir_CreateStopped
    \/ ir_CreateExhausted
    \/ ir_CreateFail
    \/ ir_CreateOk

(***************************************************************************)
(* foRunner: pack retention                                                *)
(***************************************************************************)
RetainChans == 1..MaxRetainChans

\* a retainChan not yet allocated
IdleChans == {g \in RetainChans : gor[g].st = "idle"}

\* foRunner.RetainPack(pack)
RetainPack(pack) == retainPack' = pack

\* foRunner.InChan(): with a pack retained, a new retainChan and a goroutine that
\* will feed it (the goroutine has not yet evaluated foRunner.retainPack);
\* otherwise foRunner.inChan.  The result is the channel handed to the caller.
InChan(result) ==
    IF retainPack # Nil
      THEN /\ result \in IdleChans
           /\ \A g \in IdleChans : result <= g
           /\ gor' = [gor EXCEPT ![result] = [st |-> "eval", val |-> Nil]]
      ELSE /\ result = RealChan
           /\ UNCHANGED gor

\* the goroutine evaluates the operand of `retainChan <- foRunner.retainPack`
go_Eval(g) ==
    /\ gor[g].st = "eval"
    /\ gor' = [gor EXCEPT ![g] = [st |-> "send", val |-> retainPack]]
    /\ UNCHANGED <<retainPack, foIn, delivered, handle, held, reads, readLog, fresh,
                   promised, retainedNow, readRetained>>
    /\ UNCHANGED <<supVars, pipeVars, sbVars, restVars>>

\* the goroutine, its send done, executes `foRunner.retainPack = nil`
go_Clear(g) ==
    /\ gor[g].st = "clear"
    /\ retainPack' = Nil
    /\ gor' = [gor EXCEPT ![g].st = "close"]
    /\ UNCHANGED <<foIn, delivered, handle, held, reads, readLog, fresh, promised,
                   retainedNow, readRetained>>
    /\ UNCHANGED <<supVars, pipeVars, sbVars, restVars>>

\* the goroutine executes `close(retainChan)` and ends
go_Close(g) ==
    /\ gor[g].st = "close"
    /\ gor' = [gor EXCEPT ![g].st = "done"]
    /\ UNCHANGED <<retainPack, foIn, delivered, handle, held, reads, readLog, fresh,
                   promised, retainedNow, readRetained>>
    /\ UNCHANGED <<supVars, pipeVars, sbVars, restVars>>

(***************************************************************************)
(* A filter or output plugin inside Run: it asks the runner for its        *)
(* inbound channel, reads packs from it and recycles them; to be restarted *)
(* with a pack kept, it calls RetainPack immediately before returning.     *)
(***************************************************************************)
\* Run is executing and has not yet called RetainPack
InRun == pc["fo"] = "running" /\ retainedNow = Nil

\* inChan := or.InChan()
pl_InChan ==
    /\ InRun
    /\ \E c \in RetainChans \cup {RealChan} :
          /\ InChan(c)
          /\ handle' = c
    /\ fresh' = TRUE
    /\ UNCHANGED <<retainPack, foIn, delivered, held, reads, readLog, promised,
                   retainedNow, readRetained>>
    /\ UNCHANGED <<supVars, pipeVars, sbVars, restVars>>

\* pk := <-inChan on the runner's real queue
pl_RecvReal ==
    /\ InRun
    /\ handle = RealChan
    /\ held = Nil
    /\ reads < MaxReads
    /\ foIn # <<>>
    /\ held' = Head(foIn)
    /\ foIn' = Tail(foIn)
    /\ reads' = reads + 1
    /\ readLog' = Append(readLog, [val |-> Head(foIn), via |-> "real", fresh |-> fresh])
    /\ fresh' = FALSE
    /\ UNCHANGED <<retainPack, delivered, gor, handle, promised, retainedNow,
                   readRetained>>
    /\ UNCHANGED <<supVars, pipeVars, sbVars, restVars>>

\* pk := <-inChan on a retainChan whose goroutine is blocked in its send
pl_RecvRetain ==
    /\ InRun
    /\ handle \in RetainChans
    /\ held = Nil
    /\ reads < MaxReads
    /\ gor[handle].st = "send"
    /\ held' = gor[handle].val
    /\ gor' = [gor EXCEPT ![handle].st = "clear"]
    /\ reads' = reads + 1
    /\ readLog' = Append(readLog,
                         [val |-> gor[handle].val, via |-> "retain", fresh |-> fresh])
    /\ fresh' = FALSE
    /\ readRetained' = (readRetained \/ gor[handle].val # Nil)
    /\ UNCHANGED <<retainPack, foIn, delivered, handle, promised, retainedNow>>
    /\ UNCHANGED <<supVars, pipeVars, sbVars, restVars>>

\* pk := <-inChan on a retainChan that has been closed: the zero value
pl_RecvClosed ==
    /\ InRun
    /\ handle \in RetainChans
    /\ held = Nil
    /\ reads < MaxReads
    /\ gor[handle].st = "done"
    /\ reads' = reads + 1
    /\ readLog' = Append(readLog, [val |-> Nil, via |-> "closed", fresh |-> fresh])
    /\ fresh' = FALSE
    /\ UNCHANGED <<retainPack, foIn, delivered, gor, handle, held, promised,
                   retainedNow, readRetained>>
    /\ UNCHANGED <<supVars, pipeVars, sbVars, restVars>>

\* or.RetainPack(pk): the plugin leaves the pack it holds with the runner
pl_RetainPack ==
    /\ InRun
    /\ held # Nil
    /\ RetainPack(held)
    /\ retainedNow' = held
    /\ held' = Nil
    /\ readRetained' = FALSE
    /\ UNCHANGED <<foIn, delivered, gor, handle, reads, readLog, fresh, promised>>
    /\ UNCHANGED <<supVars, pipeVars, sbVars, restVars>>

\* the plugin is done with the pack it holds
pl_Recycle ==
    /\ InRun
    /\ held # Nil
    /\ held' = Nil
    /\ UNCHANGED <<retainPack, foIn, delivered, gor, handle, reads, readLog, fresh,
                   promised, retainedNow, readRetained>>
    /\ UNCHANGED <<supVars, pipeVars, sbVars, restVars>>

\* the router side puts the next matching pack on foRunner.inChan
rt_Deliver ==
    /\ delivered < MaxDelivered
    /\ Len(foIn) < PluginChanSize
    /\ foIn' = Append(foIn, delivered + 1)
    /\ delivered' = delivered + 1
    /\ UNCHANGED <<retainPack, gor, handle, held, reads, readLog, fresh, promised,
                   retainedNow, readRetained>>
    /\ UNCHANGED <<supVars, pipeVars, sbVars, restVars>>

(***************************************************************************)
(* foRunner.Starter                                                        *)
(***************************************************************************)
\* NewRetryHelper(foRunner.pluginGlobals.Retries): a bad retry configuration ends
\* the runner
fo_NewRetryHelper ==
    /\ pc["fo"] = "start"
    /\ \/ /\ Log("fo", "error")
          /\ ShutDown("fo")
          /\ Finish("fo")
       \/ /\ pc' = [pc EXCEPT !["fo"] = "loop"]
          /\ UNCHANGED <<sigPending, shutDownCalls, wgDone, logged>>
    /\ UNCHANGED <<Stopping, times, plugin, made, runs, runErr, fails, cleanups,
                   matcherStarts>>
    /\ UNCHANGED <<supCfg, pipeVars, sbVars, restVars>>
    /\ UNCHANGED retVars

\* for !globals.Stopping { matcher.Start(inChan); filter.Run / output.Run ...
\* Run starts with fresh locals.
fo_LoopTop ==
    /\ pc["fo"] = "loop"
    /\ IF Stopping
         THEN /\ Finish("fo")
              /\ UNCHANGED <<runs, matcherStarts, logged>>
              /\ UNCHANGED retVars
         ELSE /\ matcherStarts' = matcherStarts + 1
              /\ IF foKind = "none"
                   THEN /\ Log("fo", "error")
                        /\ Finish("fo")
                        /\ UNCHANGED runs
                        /\ UNCHANGED retVars
                   ELSE /\ pc' = [pc EXCEPT !["fo"] = "running"]
                        /\ runs' = [runs EXCEPT !["fo"] = @ + 1]
                        /\ handle' = NoChan
                        /\ reads' = 0
                        /\ readLog' = <<>>
                        /\ fresh' = FALSE
                        /\ promised' = retainedNow
                        /\ retainedNow' = Nil
                        /\ UNCHANGED <<wgDone, logged, retainPack, foIn, delivered, gor,
                                       held, readRetained>>
    /\ UNCHANGED <<Stopping, sigPending, times, plugin, made, runErr, fails, cleanups,
                   shutDownCalls>>
    /\ UNCHANGED <<supCfg, pipeVars, sbVars, restVars>>

\* the plugin's Run returns, with an error or with nil; the runner logs which
fo_RunReturn ==
    /\ pc["fo"] = "running"
    /\ runs["fo"] <= MaxRuns
    /\ held = Nil
    /\ \E err \in BOOLEAN :
          /\ runErr' = [runErr EXCEPT !["fo"] = err]
          /\ Log("fo", IF err THEN "error" ELSE "stopped")
    /\ pc' = [pc EXCEPT !["fo"] = "ran"]
    /\ UNCHANGED <<Stopping, sigPending, times, plugin, made, runs, fails, cleanups,
                   wgDone, shutDownCalls, matcherStarts>>
    /\ UNCHANGED <<supCfg, pipeVars, sbVars, restVars>>
    /\ UNCHANGED retVars

\* the Stopping check after Run, the wrapper lookup, then CleanupForRestart or
\* ShutDown
fo_AfterRun ==
    /\ pc["fo"] = "ran"
    /\ IF Stopping \/ ~hasWrapper
         THEN /\ Finish("fo")
              /\ UNCHANGED <<sigPending, shutDownCalls, cleanups, fails, logged>>
         ELSE IF restarting["fo"]
                THEN /\ cleanups' = [cleanups EXCEPT !["fo"] = @ + 1]
                     /\ fails' = [fails EXCEPT !["fo"] = 0]
                     /\ pc' = [pc EXCEPT !["fo"] = "create"]
                     /\ UNCHANGED <<sigPending, shutDownCalls, wgDone, logged>>
                ELSE /\ Log("fo", "has stopped, shutting down.")
                     /\ ShutDown("fo")
                     /\ Finish("fo")
                     /\ UNCHANGED <<cleanups, fails>>
    /\ UNCHANGED <<Stopping, times, plugin, made, runs, runErr, matcherStarts>>
    /\ UNCHANGED <<supCfg, pipeVars, sbVars, restVars>>
    /\ UNCHANGED retVars

\* createLoop, left because globals.Stopping is set
fo_CreateStopped ==
    /\ pc["fo"] = "create"
    /\ Stopping
    /\ Log("fo", "exited, now restarting.")
    /\ pc' = [pc EXCEPT !["fo"] = "loop"]
    /\ UNCHANGED <<Stopping, sigPending, times, plugin, made, runs, runErr, fails,
                   cleanups, wgDone, shutDownCalls, matcherStarts>>
    /\ UNCHANGED <<supCfg, pipeVars, sbVars, restVars>>
    /\ UNCHANGED retVars

\* createLoop: rh.Wait() returns an error
fo_CreateExhausted ==
    /\ pc["fo"] = "create"
    /\ ~Stopping
    /\ WaitExhausted("fo")
    /\ Log("fo", "error")
    /\ ShutDown("fo")
    /\ Finish("fo")
    /\ UNCHANGED <<Stopping, times, plugin, made, runs, runErr, fails, cleanups,
                   matcherStarts>>
    /\ UNCHANGED <<supCfg, pipeVars, sbVars, restVars>>
    /\ UNCHANGED retVars

\* createLoop: pw.CreateWithError() fails; log and go round again
fo_CreateFail ==
    /\ pc["fo"] = "create"
    /\ ~Stopping
    /\ ~WaitExhausted("fo")
    /\ times' = WaitCounted("fo")
    /\ fails' = [fails EXCEPT !["fo"] = @ + 1]
    /\ Log("fo", "error")
    /\ UNCHANGED <<Stopping, sigPending, pc, plugin, made, runs, runErr, cleanups,
                   wgDone, shutDownCalls, matcherStarts>>
    /\ UNCHANGED <<supCfg, pipeVars, sbVars, restVars>>
    /\ UNCHANGED retVars

\* fo_CreateOk with the assignment foRunner.plugin = p left out
fo_CreateOk_KeepsOld ==
    /\ pc["fo"] = "create"
    /\ ~Stopping
    /\ ~WaitExhausted("fo")
    /\ made' = [made EXCEPT !["fo"] = @ + 1]
    /\ times' = Reset("fo")
    /\ Log("fo", "exited, now restarting.")
    /\ pc' = [pc EXCEPT !["fo"] = "loop"]
    /\ UNCHANGED <<Stopping, sigPending, plugin, runs, runErr, fails, cleanups, wgDone,
                   shutDownCalls, matcherStarts>>
    /\ UNCHANGED <<supCfg, pipeVars, sbVars, restVars>>
    /\ UNCHANGED retVars

\* createLoop: pw.CreateWithError() succeeds; foRunner.plugin = p, rh.Reset(), break
fo_CreateOk ==
    /\ pc["fo"] = "create"
    /\ ~Stopping
    /\ ~WaitExhausted("fo")
    /\ made' = [made EXCEPT !["fo"] = @ + 1]
    /\ plugin' = [plugin EXCEPT !["fo"] = made["fo"] + 1]
    /\ times' = Reset("fo")
    /\ Log("fo", "exited, now restarting.")
    /\ pc' = [pc EXCEPT !["fo"] = "loop"]
    /\ UNCHANGED <<Stopping, sigPending, runs, runErr, fails, cleanups, wgDone,
                   shutDownCalls, matcherStarts>>
    /\ UNCHANGED <<supCfg, pipeVars, sbVars, restVars>>
    /\ UNCHANGED retVars

foRunnerStarter ==
    \/ fo_NewRetryHelper
    \/ fo_LoopTop
    \/ fo_RunReturn
    \/ fo_AfterRun
    \/ fo_CreateStopped
    \/ fo_CreateExhausted
    \/ fo_CreateFail
    \/ fo_CreateOk

(***************************************************************************)
(* Initial states and specifications                                       *)
(***************************************************************************)
\* pack identities; a pipeline with a pool of n packs has the first n of them
Packs == 1..(IF InjectPoolSize > PoolSize THEN InjectPoolSize ELSE PoolSize)

\* a sequence holding the elements of the finite set S of numbers, ascending
RECURSIVE Ascending(_)
Ascending(S) ==
    IF S = {} THEN <<>>
    ELSE LET lo == CHOOSE x \in S : \A y \in S : x <= y
         IN <<lo>> \o Ascending(S \ {lo})

Consumers == {"smtp", "file", "flt"}

\* the pool full, every pack zeroed, every queue empty, everybody idle
\* a SandboxDecoder after Init and before its first Decode
InitSb ==
    /\ sb = "live"
    /\ sbDead = FALSE
    /\ sErr = "nil"
    /\ sPack = Nil
    /\ sOwn = FALSE
    /\ sPacks = <<>>
    /\ original = <<"nil", "", Nil>>
    /\ hdr = [p \in Packs |-> "nil"]
    /\ sbPc = "idle"
    /\ inHdr = "nil"
    /\ calls = 0
    /\ failedCalls = 0
    /\ taken = {}
    /\ cbRet = -1
    /\ cbBinary = FALSE
    /\ cbSet = FALSE
    /\ sbRet = "none"
    /\ sbWait = FALSE

\* a decoder runner whose goroutine has called SetDecoderRunner and waits for its
\* first pack; the decoder is one that implements both optional interfaces
InitStarted ==
    /\ drPc = "idle"
    /\ inChanClosed = FALSE
    /\ wantsRunner = TRUE
    /\ wantsShutdown = TRUE
    /\ setRunnerCalls = 1
    /\ decShutdowns = 0
    /\ drDone = 0
    /\ closedWith = 0

(***************************************************************************)
(* The http_status filter: a circular buffer of Rows rows and five         *)
(* columns, one per class of HTTP status                                   *)
(***************************************************************************)
\* read_config("rows"); 1440 when not configured
Rows == 2

\* the timestamps messages carry, in units of sec_per_row
MaxTime == 3

\* the columns status:set_header returned
HTTP_200 == 1
HTTP_300 == 2
HTTP_400 == 3
HTTP_500 == 4
HTTP_UNKNOWN == 5

Columns == HTTP_200..HTTP_UNKNOWN

\* read_message("Fields[status]"): nil when the message has no such field, else
\* the field's value, a number or a string
NoField == [type |-> "nil", n |-> 0]

StatusValues ==
    {NoField, [type |-> "string", n |-> 404]}
       \cup {[type |-> "number", n |-> k] :
                k \in {199, 200, 299, 300, 399, 400, 499, 500, 599, 600}}

Messages == [ts : 0..MaxTime, sc : StatusValues]

\* circular_buffer.new(rows, 5, sec_per_row): every cell zero, the last row current
NewBuffer ==
    [time |-> Rows - 1, cells |-> [r \in 0..(Rows - 1) |-> [col \in Columns |-> 0]]]

\* the script loaded, before any call: lines 28-39 have run
InitLua ==
    /\ status = NewBuffer
    /\ luaMsg = [ts |-> 0, sc |-> NoField]
    /\ luaRet = 0
    /\ luaDead = FALSE
    /\ luaCalls = 0
    /\ luaTicks = 0
    /\ luaInjected = 0

\* FileOutput after Init, Run called: two goroutines about to start, batchChan and
\* backChan empty, the file open
InitFile ==
    /\ fIn = <<>>
    /\ fInClosed = FALSE
    /\ fSent = 0
    /\ fRecycled = 0
    /\ rcPc = "start"
    /\ rcBatch = [buf |-> 0, data |-> <<>>]
    /\ batchClosed = FALSE
    /\ backChan = <<>>
    /\ cmPc = "start"
    /\ cmBatch = [buf |-> 0, data |-> <<>>]
    /\ file = <<>>
    /\ fileOpen = TRUE
    /\ accepted = <<>>
    /\ writeFailed = FALSE
    /\ hups = 0
    /\ wgFile = 0
    /\ runPc = "wait"
    /\ fileLog = ""
    /\ grown = <<>>

\* NewPipelinePack for each of the n packs of the pool: RefCount 1, queued on the
\* pool channel.  A pack the pipeline does not have is given the count 0.
InitPool(n) ==
    /\ pool = Ascending(1..n)
    /\ refcount = [p \in Packs |-> IF p <= n THEN 1 ELSE 0]

\* the packs this pipeline has
Existing == {p \in Packs : refcount[p] # 0}

InitIdle ==
    /\ InitSb
    /\ InitFile
    /\ InitLua
    /\ msg = [p \in Packs |-> "zero"]
    /\ inHeld = Nil
    /\ drIn = <<>>
    /\ drPack = Nil
    /\ drExtra = <<>>
    /\ drNonNil = FALSE
    /\ drErr = FALSE
    /\ drSlice = <<>>
    /\ drPacks = <<>>
    /\ drSent = <<>>
    /\ routerIn = <<>>
    /\ rtPack = Nil
    /\ rtTodo = <<>>
    /\ cIn = [c \in Consumers |-> <<>>]
    /\ cPack = [c \in Consumers |-> Nil]
    /\ fltNew = Nil
    /\ injecting = {}
    /\ dropped = {}
    /\ injectRet = "none"
    /\ pipeLog = ""
    /\ inLog = <<>>
    /\ fltLog = <<>>

InitPacks ==
    /\ InitIdle
    /\ InitPool(PoolSize)

InitPipe ==
    /\ InitPacks
    /\ InitStarted

InitRet ==
    /\ retainPack = Nil
    /\ foIn = <<>>
    /\ delivered = 0
    /\ gor = [g \in RetainChans |-> [st |-> "idle", val |-> Nil]]
    /\ handle = NoChan
    /\ held = Nil
    /\ reads = 0
    /\ readLog = <<>>
    /\ fresh = FALSE
    /\ promised = Nil
    /\ retainedNow = Nil
    /\ readRetained = FALSE

InitSupState ==
    /\ Stopping = FALSE
    /\ sigPending = FALSE
    /\ pc = [r \in Runners |-> "start"]
    /\ times = [r \in Runners |-> 0]
    /\ plugin = [r \in Runners |-> 0]
    /\ made = [r \in Runners |-> 0]
    /\ runs = [r \in Runners |-> 0]
    /\ runErr = [r \in Runners |-> FALSE]
    /\ fails = [r \in Runners |-> 0]
    /\ cleanups = [r \in Runners |-> 0]
    /\ wgDone = [r \in Runners |-> 0]
    /\ shutDownCalls = [r \in Runners |-> 0]
    /\ matcherStarts = 0
    /\ logged = [r \in Runners |-> ""]

\* an input runner and a filter/output runner, of any configuration, not yet started
InitSup ==
    /\ restarting \in [Runners -> BOOLEAN]
    /\ hasWrapper \in BOOLEAN
    /\ maxRetries \in 0..MaxRetriesLimit
    /\ foKind \in {"filter", "output", "none"}
    /\ InitSupState
    /\ InitRet
    /\ InitPipe

NextSup ==
    \/ iRunnerStarter
    \/ foRunnerStarter
    \/ MainShutdown
    \/ Sigint

SpecSup == InitSup /\ [][NextSup]_vars

\* every goroutine that can take a step eventually does; plugins and operators owe
\* nothing
FairSup ==
    /\ SpecSup
    /\ WF_vars(ir_NewRetryHelper \/ ir_LoopTop \/ ir_AfterRun \/ ir_CreateStopped
               \/ ir_CreateExhausted \/ ir_CreateFail \/ ir_CreateOk)
    /\ WF_vars(fo_NewRetryHelper \/ fo_LoopTop \/ fo_AfterRun \/ fo_CreateStopped
               \/ fo_CreateExhausted \/ fo_CreateFail \/ fo_CreateOk)
    /\ WF_vars(MainShutdown)

\* a restartable filter/output plugin that reads, retains and is restarted
InitRetain ==
    /\ restarting = [r \in Runners |-> TRUE]
    /\ hasWrapper = TRUE
    /\ maxRetries \in 0..MaxRetriesLimit
    /\ foKind \in {"filter", "output"}
    /\ InitSupState
    /\ InitRet

    /\ InitPipe

NextRetain ==
    \/ foRunnerStarter
    \/ MainShutdown
    \/ Sigint
    \/ pl_InChan
    \/ pl_RecvReal
    \/ pl_RecvRetain
    \/ pl_RecvClosed
    \/ pl_RetainPack
    \/ pl_Recycle
    \/ rt_Deliver
    \/ \E g \in RetainChans : go_Eval(g) \/ go_Clear(g) \/ go_Close(g)

SpecRetain == InitRetain /\ [][NextRetain]_vars

(***************************************************************************)
(* Supervision: what happens when Run returns                              *)
(***************************************************************************)
\* the runner's goroutine takes the step that follows the return of Run
LeavesRan(r) == pc[r] = "ran" /\ pc'[r] # "ran"

\* the plugin is not Restarting, its Run has returned an error and Stopping is false
FaultedNoRestart(r) == pc[r] = "ran" /\ runErr[r] /\ ~restarting[r] /\ ~Stopping

\* runners whose plugin has a wrapper registered under its name (inputs always;
\* filters and outputs when the wrapper map has one)
Wrapped(r) == r = "ir" \/ hasWrapper

\* C2 as stated: for every input, filter or output plugin that is not Restarting,
\* when Run returns an error while Stopping is false the runner calls
\* globals.ShutDown, terminates, and never invokes Run again.
C2_ShutDownOnAnyFault ==
    [][\A r \in Runners :
          (FaultedNoRestart(r) /\ LeavesRan(r))
             => /\ shutDownCalls'[r] = shutDownCalls[r] + 1
                /\ pc'[r] = "done"
                /\ runs'[r] = 1]_vars

\* C2 amended: the same for input plugins and for filters and outputs that have a
\* wrapper; Stopping then eventually becomes true; and no plugin that is not
\* Restarting has Run invoked twice.
C2_ShutDownOnFault ==
    /\ [][\A r \in Runners :
             (FaultedNoRestart(r) /\ Wrapped(r) /\ LeavesRan(r))
                => /\ shutDownCalls'[r] = shutDownCalls[r] + 1
                   /\ sigPending'
                   /\ pc'[r] = "done"]_vars
    /\ \A r \in Runners : (FaultedNoRestart(r) /\ Wrapped(r)) ~> Stopping
    /\ [](\A r \in Runners : ~restarting[r] => runs[r] <= 1)

\* C2 witness: a plugin that is not Restarting has returned an error from its first
\* Run, its runner has called ShutDown and ended, and Stopping is set
C2_Witness ==
    \E r \in Runners :
        /\ ~restarting[r] /\ Wrapped(r)
        /\ runs[r] = 1 /\ runErr[r]
        /\ pc[r] = "done" /\ shutDownCalls[r] = 1
        /\ logged[r] = "has stopped, shutting down."
        /\ Stopping

(***************************************************************************)
(* Supervision: the createLoop                                             *)
(***************************************************************************)
\* C3: a Restarting plugin whose re-creation fails k <= max_retries times and then
\* succeeds: while the failures are within the budget the runner does not call
\* ShutDown; the success ends the loop with the new instance installed and the
\* retry helper reset; Run is then invoked, on the newest instance, unless the
\* process is stopping.
C3_RestartWithinBudget ==
    /\ [][\A r \in Runners :
             (pc[r] = "create" /\ fails[r] <= maxRetries)
                => /\ shutDownCalls'[r] = shutDownCalls[r]
                   /\ pc'[r] # "done"]_vars
    /\ [][\A r \in Runners :
             made'[r] # made[r]
                => /\ made'[r] = made[r] + 1
                   /\ fails'[r] = fails[r] /\ fails[r] <= maxRetries
                   /\ times[r] = fails[r] /\ times'[r] = 0
                   /\ pc'[r] = "loop"]_vars
    /\ [](\A r \in Runners : pc[r] = "running" => plugin[r] = made[r])
    /\ \A r \in Runners :
          (pc[r] = "loop" /\ made[r] > 0) ~> (pc[r] = "running" \/ Stopping)

\* C3 witness: re-creation failed twice and then succeeded under max_retries = 2,
\* Run is executing on the new instance, and nobody asked for a shutdown
C3_Witness ==
    \E r \in Runners :
        /\ maxRetries = 2 /\ fails[r] = 2
        /\ made[r] = 1 /\ plugin[r] = 1
        /\ pc[r] = "running" /\ runs[r] = 2
        /\ shutDownCalls[r] = 0
        /\ ~sigPending /\ ~Stopping

\* C4: a createLoop makes at most max_retries + 1 attempts; when all of them have
\* failed the runner calls ShutDown and terminates, Stopping eventually becomes
\* true, a terminated runner never invokes Run again, and no runner stays in its
\* createLoop forever.
C4_RetriesBounded ==
    /\ [](\A r \in Runners : fails[r] <= maxRetries + 1)
    /\ [][\A r \in Runners :
             (pc[r] = "create" /\ fails[r] = maxRetries + 1 /\ ~Stopping
                  /\ pc'[r] # pc[r])
                => /\ shutDownCalls'[r] = shutDownCalls[r] + 1
                   /\ sigPending'
                   /\ pc'[r] = "done"]_vars
    /\ [][\A r \in Runners :
             pc[r] = "done" => (pc'[r] = "done" /\ runs'[r] = runs[r])]_vars
    /\ \A r \in Runners : (pc[r] = "create") ~> (pc[r] # "create")
    /\ \A r \in Runners :
          (pc[r] = "done" /\ fails[r] = maxRetries + 1 /\ made[r] = 0) ~> Stopping

\* C4 witness: with max_retries = 1 both creation attempts failed, the runner has
\* called ShutDown and ended after a single Run, and Stopping is set
C4_Witness ==
    \E r \in Runners :
        /\ maxRetries = 1 /\ fails[r] = 2 /\ made[r] = 0
        /\ pc[r] = "done" /\ runs[r] = 1
        /\ shutDownCalls[r] = 1
        /\ Stopping

(***************************************************************************)
(* Pack retention across a restart                                         *)
(***************************************************************************)
\* C5: if the plugin called RetainPack(p) and then returned from Run, the first
\* item it reads from the channel returned by InChan() in its next Run is p.
C5_RetainedIsFirstRead ==
    (promised # Nil /\ reads >= 1) => readLog[1].val = promised

\* C6: after the retained pack was the plugin's first read, a second read from
\* InChan() comes from the runner's real inbound queue: it is neither the closed
\* retain channel nor the retained pack again.
C6_SecondReadIsRealHead ==
    (/\ promised # Nil /\ reads >= 2
     /\ readLog[1].via = "retain" /\ readLog[1].val = promised
     /\ readLog[2].fresh)
        => readLog[2].via = "real"

\* C7, at the last of the instants it names: once the retained pack has been read
\* and the runner has terminated, foRunner.retainPack is nil.
C7_SlotEmptyOnceRead ==
    (readRetained /\ pc["fo"] = "done") => retainPack = Nil

(***************************************************************************)
(* The pack pool and the message matchers                                  *)
(***************************************************************************)
\* messages, named after the consumers whose message_matcher accepts them
Msgs == {"sf", "flt", "none"}

\* MatcherSpecification.Match: does consumer c's matcher accept message m
Match(c, m) ==
    \/ c = "smtp" /\ m = "sf"
    \/ c = "file" /\ m = "sf"
    \/ c = "flt"  /\ m = "flt"

\* the consumers in the order their MatchRunners were registered
Registered == <<"smtp", "file", "flt">>

IsMatch(m, c) == Match(c, m)

\* the registered consumers that accept m, in registration order
Matching(m) == SelectSeq(Registered, LAMBDA c : IsMatch(m, c))

\* a buffered channel with room for one more
HasRoom(ch) == Len(ch) < PluginChanSize

\* the router's inbound queue has room for one more
RouterHasRoom == Len(routerIn) < RouterChanSize

\* sequence q without pack p
Without(q, p) == SelectSeq(q, LAMBDA x : x # p)

\* pack.Recycle(): count one reference down; the last one zeroes the pack, whose
\* count starts again at 1, and puts it back on the pool channel
Recycle(p) ==
    IF refcount[p] = 1
      THEN /\ pool' = Append(pool, p)
           /\ msg' = [msg EXCEPT ![p] = "zero"]
           /\ UNCHANGED refcount
      ELSE /\ refcount' = [refcount EXCEPT ![p] = @ - 1]
           /\ UNCHANGED <<pool, msg>>

\* a step that calls no Inject and logs nothing
Quiet == injectRet' = "none" /\ pipeLog' = ""

\* a step that logs and calls no Inject
Logs(line) == injectRet' = "none" /\ pipeLog' = line

(***************************************************************************)
(* An input: iRunner.InChan() and iRunner.Inject                           *)
(***************************************************************************)
\* pack := <-ir.InChan(): ir.inChan is the pool channel; blocks while it is empty
in_Acquire ==
    /\ inHeld = Nil
    /\ pool # <<>>
    /\ inHeld' = Head(pool)
    /\ pool' = Tail(pool)
    /\ Quiet
    /\ UNCHANGED <<refcount, msg, drIn, drPc, drPack, drExtra, drNonNil, drErr, drSlice,
                   drPacks, drSent, routerIn, rtPack, rtTodo, cIn, cPack, fltNew,
                   injecting, dropped>>
    /\ UNCHANGED <<supVars, retVars, ordVars>>
    /\ UNCHANGED <<sbVars, restVars>>

\* an Inject that leaves the send to a goroutine of its own
in_Inject_Spawns ==
    /\ inHeld # Nil
    /\ \E m \in Msgs : msg' = [msg EXCEPT ![inHeld] = m]
    /\ injecting' = injecting \cup {inHeld}
    /\ inLog' = Append(inLog, inHeld)
    /\ inHeld' = Nil
    /\ Quiet
    /\ UNCHANGED <<pool, refcount, drIn, drPc, drPack, drExtra, drNonNil, drErr, drSlice,
                   drPacks, drSent, routerIn, rtPack, rtTodo, cIn, cPack, fltNew,
                   dropped>>
    /\ UNCHANGED <<supVars, retVars, fltLog>>
    /\ UNCHANGED <<sbVars, restVars>>

\* the input fills the pack and calls ir.Inject(pack): router.InChan() <- pack
in_Inject ==
    /\ inHeld # Nil
    /\ RouterHasRoom
    /\ \E m \in Msgs : msg' = [msg EXCEPT ![inHeld] = m]
    /\ routerIn' = Append(routerIn, inHeld)
    /\ inHeld' = Nil
    /\ inLog' = Append(inLog, inHeld)
    /\ Quiet
    /\ UNCHANGED <<pool, refcount, drIn, drPc, drPack, drExtra, drNonNil, drErr, drSlice,
                   drPacks, drSent, rtPack, rtTodo, cIn, cPack, fltNew, injecting,
                   dropped>>
    /\ UNCHANGED <<supVars, retVars, fltLog>>
    /\ UNCHANGED <<sbVars, restVars>>

\* the input fills the pack with message m and hands it to its decoder:
\* dr.InChan() <- pack.  The queue is closed only when the inputs send no more.
ToDecoder(m) ==
    /\ inHeld # Nil
    /\ ~inChanClosed
    /\ HasRoom(drIn)
    /\ msg' = [msg EXCEPT ![inHeld] = m]
    /\ drIn' = Append(drIn, inHeld)
    /\ inHeld' = Nil
    /\ Quiet
    /\ UNCHANGED <<pool, refcount, drPc, drPack, drExtra, drNonNil, drErr, drSlice,
                   drPacks, drSent, routerIn, rtPack, rtTodo, cIn, cPack, fltNew,
                   injecting, dropped>>
    /\ UNCHANGED <<supVars, retVars, ordVars>>
    /\ UNCHANGED <<sbVars, restVars>>

\* an input with a decoder, whatever its messages
in_ToDecoder == \E m \in Msgs : ToDecoder(m)

(***************************************************************************)
(* dRunner.Start and the decoder it drives                                 *)
(***************************************************************************)
\* what the steps of the decoding loop leave alone
loopRest == <<pool, refcount, msg, inHeld, drIn, drPack, drExtra, drNonNil, drErr,
              drSlice, drPacks, drSent, routerIn, rtPack, rtTodo, cIn, cPack, fltNew,
              injecting, dropped>>

sbRest == <<sbDead, sErr, sPack, sOwn, sPacks, original, hdr, sbPc, inHdr, calls,
            failedCalls, taken, cbRet, cbBinary, cbSet, sbRet, sbWait>>

\* a runner that calls SetDecoderRunner again before every pack
dr_Start_EveryPack ==
    /\ drPc \in {"start", "idle"}
    /\ drIn # <<>> \/ drPc = "start"
    /\ drPc' = IF drPc = "start" THEN "idle" ELSE "start"
    /\ setRunnerCalls' = IF wantsRunner /\ setRunnerCalls < 2
                           THEN setRunnerCalls + 1 ELSE setRunnerCalls
    /\ Quiet
    /\ UNCHANGED <<loopRest, sbVars, ordVars, supVars, retVars>>
    /\ UNCHANGED <<inChanClosed, wantsRunner, wantsShutdown, decShutdowns, drDone,
                   closedWith>>
    /\ UNCHANGED <<fileVars, luaVars>>

\* the runner's goroutine starts: if wanter, ok := dr.Decoder().(WantsDecoderRunner);
\* ok { wanter.SetDecoderRunner(dr) }
dr_Start ==
    /\ drPc = "start"
    /\ drPc' = "idle"
    /\ setRunnerCalls' = IF wantsRunner THEN setRunnerCalls + 1 ELSE setRunnerCalls
    /\ Quiet
    /\ UNCHANGED <<loopRest, sbVars, ordVars, supVars, retVars>>
    /\ UNCHANGED <<inChanClosed, wantsRunner, wantsShutdown, decShutdowns, drDone,
                   closedWith>>
    /\ UNCHANGED <<fileVars, luaVars>>

\* shutdown closes the runner's inbound queue, once the input sends no more
CloseInChan ==
    /\ Stopping
    /\ ~inChanClosed
    /\ inHeld = Nil
    /\ inChanClosed' = TRUE
    /\ closedWith' = Len(drIn)
    /\ Quiet
    /\ UNCHANGED <<drPc, loopRest, sbVars, ordVars, supVars, retVars>>
    /\ UNCHANGED <<wantsRunner, wantsShutdown, setRunnerCalls, decShutdowns, drDone>>
    /\ UNCHANGED <<fileVars, luaVars>>

\* a runner that leaves the loop as soon as the queue is closed
dr_Shutdown_AtClose ==
    /\ drPc = "idle"
    /\ inChanClosed
    /\ drPc' = "stopped"
    /\ IF wantsShutdown
         THEN decShutdowns' = decShutdowns + 1 /\ sb' = "nil"
         ELSE UNCHANGED <<decShutdowns, sb>>
    /\ Quiet
    /\ UNCHANGED <<loopRest, sbRest, ordVars, supVars, retVars>>
    /\ UNCHANGED <<inChanClosed, wantsRunner, wantsShutdown, setRunnerCalls, drDone,
                   closedWith>>
    /\ UNCHANGED <<fileVars, luaVars>>

\* `for pack = range dr.inChan` ends: the queue is closed and empty;
\* if wanter, ok := dr.Decoder().(WantsDecoderRunnerShutdown); ok { wanter.Shutdown() }
\* and SandboxDecoder.Shutdown destroys the script host
dr_Shutdown ==
    /\ drPc = "idle"
    /\ inChanClosed
    /\ drIn = <<>>
    /\ drPc' = "stopped"
    /\ IF wantsShutdown
         THEN decShutdowns' = decShutdowns + 1 /\ sb' = "nil"
         ELSE UNCHANGED <<decShutdowns, sb>>
    /\ Quiet
    /\ UNCHANGED <<loopRest, sbRest, ordVars, supVars, retVars>>
    /\ UNCHANGED <<inChanClosed, wantsRunner, wantsShutdown, setRunnerCalls, drDone,
                   closedWith>>
    /\ UNCHANGED <<fileVars, luaVars>>

\* dr.LogMessage("stopped"); wg.Done()
dr_Done ==
    /\ drPc = "stopped"
    /\ drPc' = "done"
    /\ drDone' = drDone + 1
    /\ Logs("stopped")
    /\ UNCHANGED <<loopRest, sbVars, ordVars, supVars, retVars>>
    /\ UNCHANGED <<inChanClosed, wantsRunner, wantsShutdown, setRunnerCalls,
                   decShutdowns, closedWith>>
    /\ UNCHANGED <<fileVars, luaVars>>

\* for pack = range dr.inChan { ... dr.Decoder().Decode(pack) is called
dr_Receive ==
    /\ drPc = "idle"
    /\ drIn # <<>>
    /\ drPack' = Head(drIn)
    /\ drIn' = Tail(drIn)
    /\ drPc' = "decode"
    /\ drExtra' = <<>>
    /\ Quiet
    /\ UNCHANGED <<pool, refcount, msg, inHeld, drNonNil, drErr, drSlice, drPacks,
                   drSent, routerIn, rtPack, rtTodo, cIn, cPack, fltNew, injecting,
                   dropped>>
    /\ UNCHANGED <<supVars, retVars, ordVars>>
    /\ UNCHANGED <<sbVars, restVars>>

\* a NewPack that hands out the pool's next pack and leaves it in the pool
NewPack_LeavesInPool ==
    /\ drPc = "decode"
    /\ Len(drExtra) < MaxExtra
    /\ pool # <<>>
    /\ drExtra' = Append(drExtra, Head(pool))
    /\ \E m \in Msgs : msg' = [msg EXCEPT ![Head(pool)] = m]
    /\ Quiet
    /\ UNCHANGED <<pool, refcount, inHeld, drIn, drPc, drPack, drNonNil, drErr, drSlice,
                   drPacks, drSent, routerIn, rtPack, rtTodo, cIn, cPack, fltNew,
                   injecting, dropped>>
    /\ UNCHANGED <<supVars, retVars, ordVars>>
    /\ UNCHANGED <<sbVars, restVars>>

\* dRunner.NewPack(), called by the decoder: a receive from the pool channel, which
\* blocks while the pool is empty; the decoder fills the pack
NewPack ==
    /\ drPc = "decode"
    /\ Len(drExtra) < MaxExtra
    /\ pool # <<>>
    /\ drExtra' = Append(drExtra, Head(pool))
    /\ pool' = Tail(pool)
    /\ \E m \in Msgs : msg' = [msg EXCEPT ![Head(pool)] = m]
    /\ Quiet
    /\ UNCHANGED <<refcount, inHeld, drIn, drPc, drPack, drNonNil, drErr, drSlice,
                   drPacks, drSent, routerIn, rtPack, rtTodo, cIn, cPack, fltNew,
                   injecting, dropped>>
    /\ UNCHANGED <<supVars, retVars, ordVars>>
    /\ UNCHANGED <<sbVars, restVars>>

\* Decode returns: the input pack followed by the packs it took; or, having taken
\* none, nil (with or without an error) or an empty slice
dc_Return ==
    /\ drPc = "decode"
    /\ \/ /\ drNonNil' = TRUE
          /\ drErr' = FALSE
          /\ drSlice' = <<drPack>> \o drExtra
       \/ /\ drExtra = <<>>
          /\ drNonNil' = FALSE
          /\ drErr' \in BOOLEAN
          /\ drSlice' = <<>>
       \/ /\ drExtra = <<>>
          /\ drNonNil' = TRUE
          /\ drErr' = FALSE
          /\ drSlice' = <<>>
    /\ drPc' = "decoded"
    /\ Quiet
    /\ UNCHANGED <<pool, refcount, msg, inHeld, drIn, drPack, drExtra, drPacks, drSent,
                   routerIn, rtPack, rtTodo, cIn, cPack, fltNew, injecting, dropped>>
    /\ UNCHANGED <<supVars, retVars, ordVars>>
    /\ UNCHANGED <<sbVars, restVars>>

\* if packs, err = Decode(pack); packs != nil { start the forwarding loop }
\* else { log the error if any; pack.Recycle(); continue }
dr_Decoded ==
    /\ drPc = "decoded"
    /\ IF drNonNil
         THEN /\ drPc' = "forward"
              /\ drPacks' = drSlice
              /\ drSent' = <<>>
              /\ Quiet
              /\ UNCHANGED <<pool, refcount, msg, drPack>>
         ELSE /\ Logs(IF drErr THEN "Decoder error" ELSE "")
              /\ Recycle(drPack)
              /\ drPack' = Nil
              /\ drPc' = "idle"
              /\ UNCHANGED <<drPacks, drSent>>
    /\ UNCHANGED <<inHeld, drIn, drExtra, drNonNil, drErr, drSlice, routerIn, rtPack,
                   rtTodo, cIn, cPack, fltNew, injecting, dropped>>
    /\ UNCHANGED <<supVars, retVars, ordVars>>
    /\ UNCHANGED <<sbVars, restVars>>

\* a forwarding loop that recycles each pack after sending it
dr_Forward_Recycles ==
    /\ drPc = "forward"
    /\ drPacks # <<>>
    /\ RouterHasRoom
    /\ routerIn' = Append(routerIn, Head(drPacks))
    /\ drSent' = Append(drSent, Head(drPacks))
    /\ drPacks' = Tail(drPacks)
    /\ Recycle(Head(drPacks))
    /\ Quiet
    /\ UNCHANGED <<inHeld, drIn, drPc, drPack, drExtra, drNonNil, drErr, drSlice,
                   rtPack, rtTodo, cIn, cPack, fltNew, injecting, dropped>>
    /\ UNCHANGED <<supVars, retVars, ordVars>>
    /\ UNCHANGED <<sbVars, restVars>>

\* for _, p := range packs { router.InChan() <- p }: one send
dr_Forward ==
    /\ drPc = "forward"
    /\ drPacks # <<>>
    /\ RouterHasRoom
    /\ routerIn' = Append(routerIn, Head(drPacks))
    /\ drSent' = Append(drSent, Head(drPacks))
    /\ drPacks' = Tail(drPacks)
    /\ Quiet
    /\ UNCHANGED <<pool, refcount, msg, inHeld, drIn, drPc, drPack, drExtra, drNonNil,
                   drErr, drSlice, rtPack, rtTodo, cIn, cPack, fltNew, injecting,
                   dropped>>
    /\ UNCHANGED <<supVars, retVars, ordVars>>
    /\ UNCHANGED <<sbVars, restVars>>

\* the forwarding loop is over; on to the next pack of dr.inChan.  An input pack
\* that was not in the slice is referenced by nobody from here on.
dr_ForwardEnd ==
    /\ drPc = "forward"
    /\ drPacks = <<>>
    /\ drPc' = "idle"
    /\ drPack' = Nil
    /\ dropped' = IF \E i \in 1..Len(drSlice) : drSlice[i] = drPack
                    THEN dropped
                    ELSE dropped \cup {drPack}
    /\ Quiet
    /\ UNCHANGED <<pool, refcount, msg, inHeld, drIn, drExtra, drNonNil, drErr, drSlice,
                   drPacks, drSent, routerIn, rtPack, rtTodo, cIn, cPack, fltNew,
                   injecting>>
    /\ UNCHANGED <<supVars, retVars, ordVars>>
    /\ UNCHANGED <<sbVars, restVars>>

(***************************************************************************)
(* The router: one task draining router.InChan()                           *)
(***************************************************************************)
\* take the next pack; no matcher accepts it: Recycle; otherwise the reference
\* count is set to the number of matching consumers before any hand-off
rt_Receive ==
    /\ rtPack = Nil
    /\ routerIn # <<>>
    /\ routerIn' = Tail(routerIn)
    /\ LET p == Head(routerIn)
           S == Matching(msg[p])
       IN  IF S = <<>>
             THEN /\ Recycle(p)
                  /\ UNCHANGED <<rtPack, rtTodo>>
             ELSE /\ refcount' = [refcount EXCEPT ![p] = Len(S)]
                  /\ rtPack' = p
                  /\ rtTodo' = S
                  /\ UNCHANGED <<pool, msg>>
    /\ inLog' = Without(inLog, Head(routerIn))
    /\ fltLog' = Without(fltLog, Head(routerIn))
    /\ Quiet
    /\ UNCHANGED <<inHeld, drIn, drPc, drPack, drExtra, drNonNil, drErr, drSlice,
                   drPacks, drSent, cIn, cPack, fltNew, injecting, dropped>>
    /\ UNCHANGED <<supVars, retVars, restVars>>
    /\ UNCHANGED <<sbVars, restVars>>

\* hand the pack to the next matching consumer's queue; blocks while it is full
rt_Handoff ==
    /\ rtPack # Nil
    /\ LET c == Head(rtTodo)
       IN  /\ HasRoom(cIn[c])
           /\ cIn' = [cIn EXCEPT ![c] = Append(@, rtPack)]
    /\ rtTodo' = Tail(rtTodo)
    /\ rtPack' = IF Tail(rtTodo) = <<>> THEN Nil ELSE rtPack
    /\ Quiet
    /\ UNCHANGED <<pool, refcount, msg, inHeld, drIn, drPc, drPack, drExtra, drNonNil,
                   drErr, drSlice, drPacks, drSent, routerIn, cPack, fltNew, injecting,
                   dropped>>
    /\ UNCHANGED <<supVars, retVars, ordVars>>
    /\ UNCHANGED <<sbVars, restVars>>

(***************************************************************************)
(* The consumers                                                           *)
(***************************************************************************)
\* pack = <-inChan of consumer c
Receive(c) ==
    /\ cPack[c] = Nil
    /\ cIn[c] # <<>>
    /\ cPack' = [cPack EXCEPT ![c] = Head(cIn[c])]
    /\ cIn' = [cIn EXCEPT ![c] = Tail(@)]
    /\ Quiet
    /\ UNCHANGED <<pool, refcount, msg, inHeld, drIn, drPc, drPack, drExtra, drNonNil,
                   drErr, drSlice, drPacks, drSent, routerIn, rtPack, rtTodo, fltNew,
                   injecting, dropped>>
    /\ UNCHANGED <<supVars, retVars, ordVars>>
    /\ UNCHANGED <<sbVars, restVars>>

\* SmtpOutput.Run: for pack = range inChan {
sm_Receive == Receive("smtp")

\* SmtpOutput.Run, the loop body with a send that succeeds
sm_SendOk ==
    /\ cPack["smtp"] # Nil
    /\ Quiet
    /\ Recycle(cPack["smtp"])
    /\ cPack' = [cPack EXCEPT !["smtp"] = Nil]
    /\ UNCHANGED <<inHeld, drIn, drPc, drPack, drExtra, drNonNil, drErr, drSlice,
                   drPacks, drSent, routerIn, rtPack, rtTodo, cIn, fltNew, injecting,
                   dropped>>
    /\ UNCHANGED <<supVars, retVars, ordVars>>
    /\ UNCHANGED <<sbVars, restVars>>

\* a loop body that goes on to the next pack after a failure without Recycle
sm_SendErr_NoRecycle ==
    /\ cPack["smtp"] # Nil
    /\ \E e \in {"marshal error", "send error"} : Logs(e)
    /\ cPack' = [cPack EXCEPT !["smtp"] = Nil]
    /\ UNCHANGED <<pool, refcount, msg, inHeld, drIn, drPc, drPack, drExtra, drNonNil,
                   drErr, drSlice, drPacks, drSent, routerIn, rtPack, rtTodo, cIn,
                   fltNew, injecting, dropped>>
    /\ UNCHANGED <<supVars, retVars, ordVars>>
    /\ UNCHANGED <<sbVars, restVars>>

\* SmtpOutput.Run, the loop body when json.Marshal or sendFunction fails: the error
\* is logged and the pack recycled all the same
sm_SendErr ==
    /\ cPack["smtp"] # Nil
    /\ \E e \in {"marshal error", "send error"} : Logs(e)
    /\ Recycle(cPack["smtp"])
    /\ cPack' = [cPack EXCEPT !["smtp"] = Nil]
    /\ UNCHANGED <<inHeld, drIn, drPc, drPack, drExtra, drNonNil, drErr, drSlice,
                   drPacks, drSent, routerIn, rtPack, rtTodo, cIn, fltNew, injecting,
                   dropped>>
    /\ UNCHANGED <<supVars, retVars, ordVars>>
    /\ UNCHANGED <<sbVars, restVars>>

\* FileOutput.receiver: case pack, ok = <-inChan
file_Receive == Receive("file")

\* FileOutput.receiver: handleMessage, an error logged or the bytes appended to the
\* batch, then pack.Recycle()
file_Handle ==
    /\ cPack["file"] # Nil
    /\ \E e \in BOOLEAN : Logs(IF e THEN "Can't encode" ELSE "")
    /\ Recycle(cPack["file"])
    /\ cPack' = [cPack EXCEPT !["file"] = Nil]
    /\ UNCHANGED <<inHeld, drIn, drPc, drPack, drExtra, drNonNil, drErr, drSlice,
                   drPacks, drSent, routerIn, rtPack, rtTodo, cIn, fltNew, injecting,
                   dropped>>
    /\ UNCHANGED <<supVars, retVars, ordVars>>
    /\ UNCHANGED <<sbVars, restVars>>

(***************************************************************************)
(* A filter and foRunner.Inject                                            *)
(***************************************************************************)
\* the filter takes a pack from its runner's InChan()
flt_Receive == Receive("flt")

\* the filter obtains a pack of its own from the pool and fills it, while it
\* works on a pack it received or on a timer event
flt_NewPack ==
    /\ fltNew = Nil
    /\ pool # <<>>
    /\ fltNew' = Head(pool)
    /\ pool' = Tail(pool)
    /\ \E m \in Msgs : msg' = [msg EXCEPT ![Head(pool)] = m]
    /\ Quiet
    /\ UNCHANGED <<refcount, inHeld, drIn, drPc, drPack, drExtra, drNonNil, drErr,
                   drSlice, drPacks, drSent, routerIn, rtPack, rtTodo, cIn, cPack,
                   injecting, dropped>>
    /\ UNCHANGED <<supVars, retVars, ordVars>>
    /\ UNCHANGED <<sbVars, restVars>>

\* an Inject that does not return after rejecting a pack
fo_Inject_NoReturn ==
    /\ fltNew # Nil
    /\ IF Match("flt", msg[fltNew])
         THEN /\ Recycle(fltNew)
              /\ pipeLog' = "attempted to Inject a message to itself"
         ELSE /\ pipeLog' = ""
              /\ UNCHANGED <<pool, refcount, msg>>
    /\ injecting' = injecting \cup {fltNew}
    /\ injectRet' = "true"
    /\ fltNew' = Nil
    /\ UNCHANGED <<inHeld, drIn, drPc, drPack, drExtra, drNonNil, drErr, drSlice,
                   drPacks, drSent, routerIn, rtPack, rtTodo, cIn, cPack, dropped>>
    /\ UNCHANGED <<supVars, retVars, ordVars>>
    /\ UNCHANGED <<sbVars, restVars>>

\* an Inject that sends the accepted pack to the router itself
fo_Inject_Sends ==
    /\ fltNew # Nil
    /\ IF Match("flt", msg[fltNew])
         THEN /\ Recycle(fltNew)
              /\ pipeLog' = "attempted to Inject a message to itself"
              /\ injectRet' = "false"
              /\ UNCHANGED <<routerIn, fltLog>>
         ELSE /\ RouterHasRoom
              /\ routerIn' = Append(routerIn, fltNew)
              /\ fltLog' = Append(fltLog, fltNew)
              /\ pipeLog' = ""
              /\ injectRet' = "true"
              /\ UNCHANGED <<pool, refcount, msg>>
    /\ fltNew' = Nil
    /\ UNCHANGED <<inHeld, drIn, drPc, drPack, drExtra, drNonNil, drErr, drSlice,
                   drPacks, drSent, injecting, rtPack, rtTodo, cIn, cPack, dropped>>
    /\ UNCHANGED <<supVars, retVars, inLog>>
    /\ UNCHANGED <<sbVars, restVars>>

\* an Inject that starts its goroutine only once the router has room
fo_Inject_WaitsForRoom ==
    /\ fltNew # Nil
    /\ RouterHasRoom
    /\ IF Match("flt", msg[fltNew])
         THEN /\ Recycle(fltNew)
              /\ pipeLog' = "attempted to Inject a message to itself"
              /\ injectRet' = "false"
              /\ UNCHANGED <<injecting, fltLog>>
         ELSE /\ injecting' = injecting \cup {fltNew}
              /\ fltLog' = Append(fltLog, fltNew)
              /\ pipeLog' = ""
              /\ injectRet' = "true"
              /\ UNCHANGED <<pool, refcount, msg>>
    /\ fltNew' = Nil
    /\ UNCHANGED <<inHeld, drIn, drPc, drPack, drExtra, drNonNil, drErr, drSlice,
                   drPacks, drSent, routerIn, rtPack, rtTodo, cIn, cPack, dropped>>
    /\ UNCHANGED <<supVars, retVars, inLog>>
    /\ UNCHANGED <<sbVars, restVars>>

\* foRunner.Inject(pack): the runner's own matcher accepts the message: Recycle,
\* log, return false; otherwise start a goroutine that sends the pack to the
\* router, and return true
fo_Inject ==
    /\ fltNew # Nil
    /\ IF Match("flt", msg[fltNew])
         THEN /\ Recycle(fltNew)
              /\ pipeLog' = "attempted to Inject a message to itself"
              /\ injectRet' = "false"
              /\ UNCHANGED <<injecting, fltLog>>
         ELSE /\ injecting' = injecting \cup {fltNew}
              /\ fltLog' = Append(fltLog, fltNew)
              /\ pipeLog' = ""
              /\ injectRet' = "true"
              /\ UNCHANGED <<pool, refcount, msg>>
    /\ fltNew' = Nil
    /\ UNCHANGED <<inHeld, drIn, drPc, drPack, drExtra, drNonNil, drErr, drSlice,
                   drPacks, drSent, routerIn, rtPack, rtTodo, cIn, cPack, dropped>>
    /\ UNCHANGED <<supVars, retVars, inLog>>
    /\ UNCHANGED <<sbVars, restVars>>

\* the goroutine started by Inject: router.InChan() <- pack
go_Inject ==
    /\ \E p \in injecting :
          /\ RouterHasRoom
          /\ routerIn' = Append(routerIn, p)
          /\ injecting' = injecting \ {p}
    /\ Quiet
    /\ UNCHANGED <<pool, refcount, msg, inHeld, drIn, drPc, drPack, drExtra, drNonNil,
                   drErr, drSlice, drPacks, drSent, rtPack, rtTodo, cIn, cPack, fltNew,
                   dropped>>
    /\ UNCHANGED <<supVars, retVars, ordVars>>
    /\ UNCHANGED <<sbVars, restVars>>

\* the filter is done with the pack it received
flt_Recycle ==
    /\ cPack["flt"] # Nil
    /\ fltNew = Nil
    /\ Quiet
    /\ Recycle(cPack["flt"])
    /\ cPack' = [cPack EXCEPT !["flt"] = Nil]
    /\ UNCHANGED <<inHeld, drIn, drPc, drPack, drExtra, drNonNil, drErr, drSlice,
                   drPacks, drSent, routerIn, rtPack, rtTodo, cIn, fltNew, injecting,
                   dropped>>
    /\ UNCHANGED <<supVars, retVars, ordVars>>
    /\ UNCHANGED <<sbVars, restVars>>

(***************************************************************************)
(* The pipeline: input, decoder runner, router, consumers                  *)
(***************************************************************************)
InitPipeline ==
    /\ InitSupState
    /\ restarting = [r \in Runners |-> TRUE]
    /\ hasWrapper = TRUE
    /\ maxRetries = MaxRetriesLimit
    /\ foKind = "filter"
    /\ InitRet
    /\ InitPipe

NextPipe ==
    \/ in_Acquire
    \/ in_Inject
    \/ in_ToDecoder
    \/ dr_Receive
    \/ NewPack
    \/ dc_Return
    \/ dr_Decoded
    \/ dr_Forward
    \/ dr_ForwardEnd
    \/ rt_Receive
    \/ rt_Handoff
    \/ sm_Receive
    \/ sm_SendOk
    \/ sm_SendErr
    \/ file_Receive
    \/ file_Handle
    \/ flt_Receive
    \/ flt_NewPack
    \/ fo_Inject
    \/ go_Inject
    \/ flt_Recycle

SpecPipe == InitPipeline /\ [][NextPipe]_vars

(***************************************************************************)
(* Where the packs are                                                     *)
(***************************************************************************)
Range(q) == {q[i] : i \in 1..Len(q)}

\* how many times pack p is queued on the pool channel
InPool(p) == Cardinality({i \in 1..Len(pool) : pool[i] = p})

\* the consumers that still owe pack p a Recycle: it waits in their queue, they are
\* working on it, or the router is about to hand it to them
Owing(p) ==
    {c \in Consumers :
        \/ cPack[c] = p
        \/ p \in Range(cIn[c])
        \/ rtPack = p /\ c \in Range(rtTodo)}

\* the packs the decoder runner and its decoder hold
DecoderHolds ==
    CASE drPc \in {"decode", "decoded"} -> {drPack} \cup Range(drExtra)
      [] drPc = "forward" -> Range(drPacks) \cup (IF drSlice = <<>> THEN {drPack} ELSE {})
      [] OTHER -> {}

\* the packs outside the pool
InFlight ==
    ({inHeld, rtPack, fltNew} \ {Nil})
      \cup Range(drIn) \cup DecoderHolds \cup Range(routerIn)
      \cup UNION {Range(cIn[c]) : c \in Consumers}
      \cup ({cPack[c] : c \in Consumers} \ {Nil})
      \cup injecting \cup dropped

(***************************************************************************)
(* C1  A pack the router hands to N >= 1 consumers carries a reference     *)
(* count equal to the number of consumers that still owe it a Recycle and  *)
(* is not in the pool meanwhile; SmtpOutput.Run and FileOutput.receiver    *)
(* finish every pack with one Recycle, on the error paths too, and only    *)
(* the last of them puts the pack back on the pool, once.                  *)
(***************************************************************************)
C1_Counted ==
    \A p \in Existing :
       /\ InPool(p) <= 1
       /\ Owing(p) # {} => refcount[p] = Cardinality(Owing(p)) /\ InPool(p) = 0

C1_Finish ==
    \A c \in {"smtp", "file"} :
       (cPack[c] # Nil /\ cPack'[c] # cPack[c]) =>
          /\ cPack'[c] = Nil
          /\ IF refcount[cPack[c]] = 1
               THEN pool' = Append(pool, cPack[c])
               ELSE /\ pool' = pool
                    /\ refcount' = [refcount EXCEPT ![cPack[c]] = @ - 1]

C1_RecycledOnceByLast == [] C1_Counted /\ [][C1_Finish]_vars

\* smtp has recycled a pack it shared with file: file is the last one owing
C1_Witness ==
    \E p \in Packs :
       /\ msg[p] = "sf"
       /\ cPack["file"] = p
       /\ Owing(p) = {"file"}
       /\ refcount[p] = 1
       /\ pipeLog = "send error"

(***************************************************************************)
(* C8  Inject of a pack that the filter's own matcher accepts returns      *)
(* false, logs an error and recycles the pack once; the pack is not handed *)
(* to a sending goroutine and does not reach the router's queue.           *)
(***************************************************************************)
C8_Rejects ==
    (fltNew # Nil /\ fltNew' # fltNew /\ Match("flt", msg[fltNew])) =>
       /\ injectRet' = "false"
       /\ pipeLog' = "attempted to Inject a message to itself"
       /\ pool' = Append(pool, fltNew)
       /\ injecting' = injecting
       /\ routerIn' = routerIn

C8_NoneOnItsWay == \A p \in injecting : ~ Match("flt", msg[p])

C8_SelfInjectRejected == [] C8_NoneOnItsWay /\ [][C8_Rejects]_vars

\* Inject has just rejected a pack
C8_Witness ==
    /\ injectRet = "false"
    /\ pipeLog = "attempted to Inject a message to itself"
    /\ fltNew = Nil
    /\ cPack["flt"] # Nil

(***************************************************************************)
(* C9  Packs come from the pool only: an input's receive from InChan() and *)
(* a decoder's NewPack() take the head of the pool channel, which they can *)
(* only when it is not empty; every pack is either queued once on the pool *)
(* or in flight, never both, so pool + in flight = PoolSize.               *)
(***************************************************************************)
C9_Census ==
    /\ \A p \in Packs : InPool(p) <= 1
    /\ Range(pool) \cap InFlight = {}
    /\ Range(pool) \cup InFlight = Existing
    /\ Existing = 1..PoolSize
    /\ Len(pool) + Cardinality(InFlight) = PoolSize
    /\ Cardinality(InFlight) <= PoolSize

C9_Acquire ==
    /\ (inHeld' # inHeld /\ inHeld' # Nil) =>
          pool # <<>> /\ inHeld' = Head(pool) /\ pool' = Tail(pool)
    /\ (drExtra' # drExtra /\ drExtra' # <<>>) =>
          pool # <<>> /\ drExtra' = Append(drExtra, Head(pool)) /\ pool' = Tail(pool)

C9_PoolConserved == [] C9_Census /\ [][C9_Acquire]_vars

\* the decoder took the last pack of the pool: every pack is in flight
C9_Witness ==
    /\ pool = <<>>
    /\ drPc = "decode"
    /\ drExtra # <<>>
    /\ Cardinality(InFlight) = PoolSize

(***************************************************************************)
(* C10  When Decode returns a non-empty slice the decoder runner sends the *)
(* packs of the slice to the router's queue one by one in slice order,     *)
(* each once, and recycles none of them.                                   *)
(***************************************************************************)
C10_InOrder == drPc = "forward" => drSlice = drSent \o drPacks

C10_Step ==
    /\ (drPc = "decoded" /\ drPc' # drPc /\ drNonNil /\ drSlice # <<>>) =>
          /\ drPc' = "forward"
          /\ drPacks' = drSlice
          /\ drSent' = <<>>
          /\ pool' = pool /\ refcount' = refcount
    /\ (drPc = "forward" /\ drPacks' # drPacks) =>
          /\ drPacks # <<>>
          /\ routerIn' = Append(routerIn, Head(drPacks))
          /\ drPacks' = Tail(drPacks)
          /\ pool' = pool /\ refcount' = refcount
    /\ (drPc = "forward" /\ drPc' # drPc /\ drSlice # <<>>) =>
          /\ drSent = drSlice
          /\ pool' = pool /\ refcount' = refcount

C10_SliceForwarded == [] C10_InOrder /\ [][C10_Step]_vars

\* a slice of two packs has been sent to the router, the input pack first
C10_Witness ==
    /\ drPc = "forward"
    /\ Len(drSlice) = 2
    /\ drSlice[1] = drPack
    /\ drSent = drSlice
    /\ drPacks = <<>>

(***************************************************************************)
(* C11  When Decode forwards nothing (a nil result with or without an      *)
(* error, or an empty one) the decoder runner recycles the original pack   *)
(* once, logs the error exactly when there is one and turns to the next    *)
(* pack of its queue: no pack ends up neither forwarded nor recycled.      *)
(***************************************************************************)
C11_Step ==
    (drPc # "idle" /\ drPc' = "idle" /\ drSlice = <<>>) =>
       /\ pool' = Append(pool, drPack)
       /\ (pipeLog' = "Decoder error") <=> drErr

C11_NoneLost == \A p \in Existing : InPool(p) = 1 \/ p \in InFlight \ dropped

C11_NothingForwardedIsRecycled == [] C11_NoneLost /\ [][C11_Step]_vars

(***************************************************************************)
(* C19  A runner that finds Stopping set when Run has returned, at the top *)
(* of its supervision loop or at the top of its createLoop calls neither   *)
(* CleanupForRestart nor CreateWithError nor Run from then on; it ends,    *)
(* and its wait group is signalled once.                                   *)
(***************************************************************************)
\* the runner is at one of the places where it reads globals.Stopping
AtStoppingCheck(r) == pc[r] \in {"ran", "loop", "create"}

C19_NoMoreWork ==
    \A r \in Runners :
       (Stopping /\ AtStoppingCheck(r)) =>
          /\ cleanups'[r] = cleanups[r]
          /\ made'[r] = made[r]
          /\ fails'[r] = fails[r]
          /\ runs'[r] = runs[r]
          /\ pc'[r] # "running"

C19_DoneOnce == \A r \in Runners : wgDone[r] = (IF pc[r] = "done" THEN 1 ELSE 0)

C19_StoppingObserved ==
    /\ [][C19_NoMoreWork]_vars
    /\ [] C19_DoneOnce
    /\ \A r \in Runners : (Stopping /\ AtStoppingCheck(r)) ~> (pc[r] = "done")

\* the input runner had cleaned up for a restart when Stopping came: it ended
\* without creating a plugin and without calling ShutDown itself
C19_Witness ==
    /\ Stopping
    /\ pc["ir"] = "done" /\ wgDone["ir"] = 1
    /\ cleanups["ir"] = 1 /\ made["ir"] = 0 /\ fails["ir"] = 0
    /\ runs["ir"] = 1
    /\ shutDownCalls["ir"] = 0

(***************************************************************************)
(* C20  Run returning nil while Stopping is false.                         *)
(***************************************************************************)
\* Run has returned nil and the runner finds Stopping false
CleanExit(r) == pc[r] = "ran" /\ ~runErr[r] /\ ~Stopping

\* C20 as stated: for every Restarting plugin the runner answers a clean exit with
\* one CleanupForRestart and enters the createLoop; for any other plugin the clean
\* exit ends the runner, and Run is not invoked again.
C20_CleanExitRestartsAny ==
    [][\A r \in Runners :
          (CleanExit(r) /\ LeavesRan(r)) =>
             IF restarting[r]
               THEN cleanups'[r] = cleanups[r] + 1 /\ pc'[r] = "create"
               ELSE pc'[r] = "done" /\ runs'[r] = runs[r]]_vars

\* C20 amended: the same for inputs and for filters and outputs that have a
\* wrapper; every Run after the first is preceded by one CleanupForRestart and one
\* successful create; the createLoop leads to Run again unless the process is
\* stopping or the retries are used up; a plugin that is not Restarting runs once.
C20_CleanExitRestarts ==
    /\ [][\A r \in Runners :
             (CleanExit(r) /\ Wrapped(r) /\ LeavesRan(r)) =>
                IF restarting[r]
                  THEN /\ cleanups'[r] = cleanups[r] + 1
                       /\ pc'[r] = "create"
                       /\ shutDownCalls'[r] = shutDownCalls[r]
                  ELSE pc'[r] = "done" /\ runs'[r] = runs[r]]_vars
    /\ [](\A r \in Runners :
             pc[r] \in {"running", "ran"} =>
                cleanups[r] = runs[r] - 1 /\ made[r] = runs[r] - 1)
    /\ [](\A r \in Runners : ~restarting[r] => runs[r] <= 1 /\ cleanups[r] = 0)
    /\ \A r \in Runners :
          (CleanExit(r) /\ Wrapped(r) /\ restarting[r])
             ~> (pc[r] = "running" \/ Stopping \/ fails[r] = maxRetries + 1)

\* a Restarting plugin returned nil from its first Run, was cleaned up once and
\* re-created, and its second Run is executing
C20_Witness ==
    \E r \in Runners :
        /\ restarting[r] /\ Wrapped(r)
        /\ ~runErr[r]
        /\ pc[r] = "running" /\ runs[r] = 2
        /\ cleanups[r] = 1 /\ made[r] = 1 /\ plugin[r] = 1
        /\ logged[r] = "exited, now restarting."
        /\ ~Stopping

(***************************************************************************)
(* The order in which injected packs reach the router                      *)
(***************************************************************************)
\* the packs of sequence q that are in set S, in the order q has them
Restrict(q, S) == SelectSeq(q, LAMBDA x : x \in S)

\* sequence q holds the packs a and b, a before b
Precedes(q, a, b) ==
    \E i, j \in 1..Len(q) : i < j /\ q[i] = a /\ q[j] = b

(***************************************************************************)
(* C17  The packs one input has passed to iRunner.Inject and the router    *)
(* has not taken yet are all in the router's inbound queue, in the order   *)
(* of the Inject calls.                                                    *)
(***************************************************************************)
C17_InputOrderKept == Restrict(routerIn, Range(inLog)) = inLog

\* two packs of the input wait in the router's queue
C17_Witness ==
    /\ Len(inLog) = 2
    /\ routerIn = inLog

(***************************************************************************)
(* C18  An accepted foRunner.Inject does not send: it leaves the pack to a *)
(* goroutine of its own, and the goroutines of successive calls send in    *)
(* any order, so two packs of one filter can be in the router's inbound    *)
(* queue in the opposite order of their Inject calls.                      *)
(***************************************************************************)
C18_Spawns ==
    (fltNew # Nil /\ fltNew' # fltNew /\ ~ Match("flt", msg[fltNew])) =>
       /\ injectRet' = "true"
       /\ injecting' = injecting \cup {fltNew}
       /\ routerIn' = routerIn

C18_OnTheirWay == Range(fltLog) \ Range(routerIn) = injecting

C18_InjectIsAsynchronous == [] C18_OnTheirWay /\ [][C18_Spawns]_vars

\* the filter injected a and then b; b is ahead of a in the router's queue
C18_Witness ==
    \E a, b \in Packs :
       /\ Precedes(fltLog, a, b)
       /\ Precedes(routerIn, b, a)

(***************************************************************************)
(* SandboxDecoder                                                          *)
(***************************************************************************)
\* the sup variables a decoder leaves alone (it only asks for a shutdown)
supRest == <<Stopping, restarting, hasWrapper, maxRetries, foKind, pc, times, plugin,
             made, runs, runErr, fails, cleanups, wgDone, shutDownCalls, matcherStarts,
             logged>>

\* the pipeline variables a decoder leaves alone
pipeRest == <<inHeld, drIn, drPack, drExtra, drPacks, drSent, routerIn, rtPack, rtTodo,
              cIn, cPack, fltNew, injecting, inLog, fltLog>>

\* var original *message.Message, when it is nil
NoOriginal == <<"nil", "", Nil>>

\* message.GetXxx(): an unset header reads as the zero value
Get(h) == IF h = "nil" THEN "zero" ELSE h

\* the header as `original` has it
OriginalHeader(o) == IF o[1] = "ref" THEN hdr[o[3]] ELSE o[2]

\* p.Recycle() for each pack of q
RecycleEach(q) ==
    /\ pool' = pool \o SelectSeq(q, LAMBDA p : refcount[p] = 1)
    /\ refcount' = [p \in Packs |->
                      IF (\E i \in 1..Len(q) : q[i] = p) /\ refcount[p] > 1
                        THEN refcount[p] - 1 ELSE refcount[p]]
    /\ msg' = [p \in Packs |->
                 IF (\E i \in 1..Len(q) : q[i] = p) /\ refcount[p] = 1
                   THEN "zero" ELSE msg[p]]

\* Decode up to the call of ProcessMessage: without a script host return s.err;
\* otherwise s.pack = pack and the script is given the message
sb_Decode ==
    /\ drPc = "decode"
    /\ sbPc = "idle"
    /\ IF sb = "nil"
         THEN /\ drNonNil' = FALSE
              /\ drErr' = (sErr # "nil")
              /\ drSlice' = <<>>
              /\ drPc' = "decoded"
              /\ UNCHANGED <<sPack, sOwn, sbPc, hdr, inHdr, calls, failedCalls, taken,
                             cbRet, dropped>>
         ELSE /\ sPack' = drPack
              /\ sOwn' = FALSE
              /\ dropped' = IF sOwn THEN dropped \cup {sPack} ELSE dropped
              /\ \E h \in {"H", "nil"} :
                    /\ hdr' = [hdr EXCEPT ![drPack] = h]
                    /\ inHdr' = h
              /\ sbPc' = "script"
              /\ calls' = 0
              /\ failedCalls' = 0
              /\ taken' = {}
              /\ cbRet' = -1
              /\ UNCHANGED <<drNonNil, drErr, drSlice, drPc>>
    /\ Quiet
    /\ UNCHANGED <<sb, sbDead, sErr, sPacks, original, cbBinary, cbSet, sbRet, sbWait>>
    /\ UNCHANGED <<pool, refcount, msg, pipeRest>>
    /\ UNCHANGED <<supVars, retVars, restVars>>

\* a failed callback call that appends its pack to the batch all the same
CallbackFails_Appends(p, h, isNew) ==
    /\ hdr' = [hdr EXCEPT ![p] = h]
    /\ sPacks' = Append(sPacks, p)
    /\ sPack' = Nil
    /\ sOwn' = FALSE
    /\ cbRet' = 1
    /\ cbSet' = FALSE
    /\ failedCalls' = failedCalls + 1

\* if nil != proto.Unmarshal(payload, s.pack.Message) { return 1 }: the message is
\* left as the failed decoding left it, s.pack stays, nothing is appended
CallbackFails(p, h, isNew) ==
    /\ hdr' = [hdr EXCEPT ![p] = h]
    /\ sPack' = p
    /\ sOwn' = (isNew \/ sOwn)
    /\ cbRet' = 1
    /\ cbSet' = FALSE
    /\ failedCalls' = failedCalls + 1
    /\ UNCHANGED sPacks

\* an append that leaves s.pack hasHdr
CallbackAppends_KeepsPack(p, h, hasHdr) ==
    /\ hdr' = [hdr EXCEPT ![p] = h]
    /\ sPacks' = Append(sPacks, p)
    /\ sPack' = p
    /\ sOwn' = FALSE
    /\ cbRet' = 0
    /\ cbSet' = hasHdr
    /\ UNCHANGED failedCalls

\* s.packs = append(s.packs, s.pack); s.pack = nil; return 0
CallbackAppends(p, h, hasHdr) ==
    /\ hdr' = [hdr EXCEPT ![p] = h]
    /\ sPacks' = Append(sPacks, p)
    /\ sPack' = Nil
    /\ sOwn' = FALSE
    /\ cbRet' = 0
    /\ cbSet' = hasHdr
    /\ UNCHANGED failedCalls

\* one call of the callback registered by SetDecoderRunner.
\*   binary  the payload_type is empty: the payload is a protobuf message
\*   ok      proto.Unmarshal succeeds
\*   hasHdr  the decoded message carries the header
\*   left    the header as a failed Unmarshal leaves it (Unmarshal resets the
\*           message before it decodes)
Callback(binary, ok, hasHdr, left) ==
    LET isNew == sPack = Nil
        p  == IF isNew THEN Head(pool) ELSE sPack
        h0 == IF isNew THEN "nil" ELSE hdr[p]
        o1 == IF isNew
                THEN IF original = NoOriginal /\ Len(sPacks) > 0
                       THEN <<"ref", "", sPacks[1]>>
                       ELSE original
                ELSE NoOriginal
        o2 == IF binary /\ o1 = NoOriginal THEN <<"copy", h0, Nil>> ELSE o1
        h1 == IF binary
                THEN IF ok THEN (IF hasHdr THEN "S" ELSE "nil") ELSE left
                ELSE h0
        h2 == IF o2 # NoOriginal /\ h1 = "nil" THEN Get(OriginalHeader(o2)) ELSE h1
    IN  /\ isNew => pool # <<>>
        /\ pool' = IF isNew THEN Tail(pool) ELSE pool
        /\ taken' = IF isNew THEN taken \cup {p} ELSE taken
        /\ original' = o2
        /\ cbBinary' = binary
        /\ IF binary /\ ~ok
             THEN CallbackFails(p, h1, isNew)
             ELSE CallbackAppends(p, h2, hasHdr)

\* the script calls inject_message with s.pack nil while the pool is empty:
\* s.pack = s.dRunner.NewPack() blocks in its receive from the pool channel
sb_NewPackBlocks ==
    /\ sbPc = "script"
    /\ ~sbDead
    /\ calls < MaxInjects
    /\ sPack = Nil
    /\ pool = <<>>
    /\ ~sbWait
    /\ sbWait' = TRUE
    /\ Quiet
    /\ UNCHANGED <<sb, sbDead, sErr, sPack, sOwn, sPacks, original, hdr, sbPc, inHdr,
                   calls, failedCalls, taken, cbRet, cbBinary, cbSet, sbRet>>
    /\ UNCHANGED <<pool, refcount, msg, drPc, drNonNil, drErr, drSlice, dropped,
                   pipeRest>>
    /\ UNCHANGED <<supVars, retVars, restVars>>

\* the script calls inject_message during ProcessMessage; a call that was blocked
\* in NewPack goes on once the pool has a pack
InjectMessage ==
    /\ sbPc = "script"
    /\ ~sbDead
    /\ calls < MaxInjects
    /\ calls' = calls + 1
    /\ sbWait' = FALSE
    /\ \/ Callback(FALSE, TRUE, FALSE, "nil")
       \/ \E hasHdr \in BOOLEAN : Callback(TRUE, TRUE, hasHdr, "nil")
       \/ \E left \in {"nil", "S"} : Callback(TRUE, FALSE, FALSE, left)
    /\ Quiet
    /\ UNCHANGED <<sb, sbDead, sErr, sbPc, inHdr, sbRet>>
    /\ UNCHANGED <<refcount, msg, drPc, drNonNil, drErr, drSlice, dropped, pipeRest>>
    /\ UNCHANGED <<supVars, retVars, restVars>>

\* a failure path that recycles the whole batch
FailedParsing_RecyclesAll == RecycleEach(sPacks)

\* retval < 0: for _, p := range s.packs[1:] { p.Recycle() }
FailedParsing ==
    IF Len(sPacks) > 1
      THEN RecycleEach(Tail(sPacks))
      ELSE UNCHANGED <<pool, refcount, msg>>

\* ProcessMessage returns and Decode returns: retval > 0 sets s.err, logs it and
\* calls ShutDown; retval < 0 sets s.err, recycles s.packs[1:] and drops the batch;
\* then packs = s.packs, s.packs = nil, err = s.err
sb_ProcessMessageReturn ==
    /\ sbPc = "script"
    /\ ~sbWait
    /\ \E r \in {"zero", "neg", "pos"} :
          /\ sbDead => r = "pos"
          /\ sbRet' = r
          /\ sErr' = (IF r = "pos" THEN "fatal" ELSE IF r = "neg" THEN "failed" ELSE sErr)
          /\ sbDead' = (sbDead \/ r = "pos")
          /\ IF r = "pos"
               THEN sigPending' = TRUE /\ Logs("FATAL")
               ELSE UNCHANGED sigPending /\ Quiet
          /\ IF r = "neg"
               THEN FailedParsing
               ELSE UNCHANGED <<pool, refcount, msg>>
          /\ drSlice' = (IF r = "neg" THEN <<>> ELSE sPacks)
          /\ drNonNil' = (r # "neg" /\ sPacks # <<>>)
          /\ drErr' = (r # "zero" \/ sErr # "nil")
    /\ sPacks' = <<>>
    /\ drPc' = "decoded"
    /\ sbPc' = "idle"
    \* the headers and the script's calls are followed during ProcessMessage only
    /\ hdr' = [p \in Packs |-> "nil"]
    /\ inHdr' = "nil"
    /\ calls' = 0
    /\ failedCalls' = 0
    /\ cbRet' = -1
    /\ cbBinary' = FALSE
    /\ cbSet' = FALSE
    /\ UNCHANGED <<sb, sPack, sOwn, original, taken, sbWait>>
    /\ UNCHANGED <<dropped, pipeRest>>
    /\ UNCHANGED <<supRest, retVars, restVars>>

(***************************************************************************)
(* An input feeding a decoder runner that drives a SandboxDecoder          *)
(***************************************************************************)
\* the input's messages are of a kind no consumer's matcher accepts: the router
\* recycles what the decoder runner forwards
NextSandbox ==
    \/ in_Acquire
    \/ ToDecoder("none")
    \/ dr_Receive
    \/ sb_Decode
    \/ sb_NewPackBlocks
    \/ InjectMessage
    \/ sb_ProcessMessageReturn
    \/ dr_Decoded
    \/ dr_Forward
    \/ dr_ForwardEnd
    \/ rt_Receive
    \/ MainShutdown

SpecSandbox == InitPipeline /\ [][NextSandbox]_vars

\* the input, the decoder runner with its decoder and script, and the router are
\* each scheduled again and again
FairSandbox ==
    /\ SpecSandbox
    /\ WF_vars(in_Acquire \/ ToDecoder("none"))
    /\ WF_vars(dr_Receive \/ sb_Decode \/ sb_NewPackBlocks \/ InjectMessage
               \/ sb_ProcessMessageReturn \/ dr_Decoded \/ dr_Forward \/ dr_ForwardEnd)
    /\ WF_vars(rt_Receive)
    /\ WF_vars(MainShutdown)

\* a step of the script's inject callback
CallbackStep == sbPc = "script" /\ calls' = calls + 1

\* the step in which ProcessMessage returns r and Decode returns
ReturnStep(r) == sbPc = "script" /\ sbPc' = "idle" /\ sbRet' = r

(***************************************************************************)
(* C12  A ProcessMessage that returns 0 after n >= 1 callback calls, none  *)
(* of which failed, makes Decode return n packs: the input pack first,     *)
(* then n-1 different packs NewPack took from the pool during this call.   *)
(* Outside Decode the batch is empty.                                      *)
(***************************************************************************)
C12_Returned ==
    (ReturnStep("zero") /\ calls >= 1 /\ failedCalls = 0) =>
       /\ drNonNil'
       /\ Len(drSlice') = calls
       /\ drSlice'[1] = drPack
       /\ drPack \notin taken
       /\ Cardinality(taken) = calls - 1
       /\ Range(Tail(drSlice')) = taken

C12_FromPool ==
    (CallbackStep /\ sPack = Nil) =>
       /\ pool # <<>>
       /\ pool' = Tail(pool)
       /\ taken' = taken \cup {Head(pool)}
       /\ cbRet' = 0 => sPacks' = Append(sPacks, Head(pool))

C12_BatchEmpty == sbPc = "idle" => sPacks = <<>>

C12_AllInjectedReturned ==
    [] C12_BatchEmpty /\ [][C12_Returned /\ C12_FromPool]_vars

\* Decode has returned the input pack and a pack from the pool
C12_Witness ==
    /\ drPc = "decoded"
    /\ sbRet = "zero"
    /\ Len(drSlice) = 2
    /\ drSlice[1] = drPack
    /\ taken = {drSlice[2]}

(***************************************************************************)
(* C13  An injection after the first of a ProcessMessage call, or a first  *)
(* one with a binary payload, emits a pack whose header is the one the     *)
(* script set, or else reads as the input message's header read when       *)
(* ProcessMessage was called.                                              *)
(***************************************************************************)
C13_HeadersFromOriginal ==
    [][(CallbackStep /\ cbRet' = 0 /\ (Len(sPacks) >= 1 \/ cbBinary')) =>
          LET p == sPacks'[Len(sPacks')]
          IN  IF cbSet' THEN hdr'[p] = "S" ELSE Get(hdr'[p]) = Get(inHdr)]_vars

(***************************************************************************)
(* C14  When ProcessMessage returns a negative value Decode recycles the   *)
(* packs of the batch after the first, each once, and returns nil and an   *)
(* error without asking for a shutdown; the decoder runner then logs the   *)
(* error, recycles the input pack once and turns to its queue again.       *)
(***************************************************************************)
C14_DecodeFails ==
    ReturnStep("neg") =>
       /\ pool' = pool \o (IF sPacks = <<>> THEN <<>> ELSE Tail(sPacks))
       /\ sPacks # <<>> => sPacks[1] = drPack
       /\ sPacks' = <<>>
       /\ drSlice' = <<>> /\ ~ drNonNil' /\ drErr'
       /\ sigPending' = sigPending

C14_RunnerRecycles ==
    (drPc = "decoded" /\ sbRet = "neg" /\ drPc' # drPc) =>
       /\ drPc' = "idle"
       /\ pool' = Append(pool, drPack)
       /\ pipeLog' = "Decoder error"
       /\ sigPending' = sigPending

C15_FatalEndsScript ==
    /\ [][ReturnStep("pos") => (pipeLog' = "FATAL" /\ sigPending')]_vars
    /\ [][sbDead => ~ (sbPc = "idle" /\ sbPc' = "script")]_vars

(***************************************************************************)
(* C16  A callback call whose binary payload does not decode returns 1 and *)
(* leaves the batch as it was; a call that returns 0 appends one pack.     *)
(***************************************************************************)
C16_Callback ==
    CallbackStep =>
       /\ cbRet' \in {0, 1}
       /\ failedCalls' # failedCalls => (cbBinary' /\ cbRet' = 1)
       /\ cbRet' = 1 => (sPacks' = sPacks /\ failedCalls' = failedCalls + 1)
       /\ cbRet' = 0 =>
             /\ Len(sPacks') = Len(sPacks) + 1
             /\ SubSeq(sPacks', 1, Len(sPacks)) = sPacks

C16_FailedInjectionAddsNothing == [][C16_Callback]_vars

\* the script's second call failed to decode: the batch still has one pack
C16_Witness ==
    /\ sbPc = "script"
    /\ calls = 2 /\ failedCalls = 1
    /\ cbRet = 1 /\ cbBinary
    /\ Len(sPacks) = 1

(***************************************************************************)
(* C21  The filter/output runner's MatchRunner is started exactly once,    *)
(* however many times the plugin is restarted: matcher.Start is never      *)
(* called a second time.                                                   *)
(***************************************************************************)
C21_MatcherStartedOnce ==
    /\ matcherStarts <= 1
    /\ runs["fo"] >= 1 => matcherStarts = 1

(***************************************************************************)
(* A decoder runner from the start of its goroutine to wg.Done(), fed by   *)
(* an input until shutdown closes its inbound queue                        *)
(***************************************************************************)
\* any decoder, the runner's goroutine not yet started
InitDecoder ==
    /\ InitSupState
    /\ restarting = [r \in Runners |-> TRUE]
    /\ hasWrapper = TRUE
    /\ maxRetries = MaxRetriesLimit
    /\ foKind = "filter"
    /\ InitRet
    /\ InitPacks
    /\ drPc = "start"
    /\ inChanClosed = FALSE
    /\ wantsRunner \in BOOLEAN
    /\ wantsShutdown \in BOOLEAN
    /\ setRunnerCalls = 0
    /\ decShutdowns = 0
    /\ drDone = 0
    /\ closedWith = 0

NextDecoder ==
    \/ in_Acquire
    \/ ToDecoder("none")
    \/ dr_Start
    \/ dr_Receive
    \/ NewPack
    \/ dc_Return
    \/ dr_Decoded
    \/ dr_Forward
    \/ dr_ForwardEnd
    \/ rt_Receive
    \/ Sigint
    \/ MainShutdown
    \/ CloseInChan
    \/ dr_Shutdown
    \/ dr_Done

SpecDecoder == InitDecoder /\ [][NextDecoder]_vars

(***************************************************************************)
(* C22  A decoder runner calls SetDecoderRunner exactly once, before the   *)
(* first Decode, and Shutdown exactly once, after its inbound queue has    *)
(* been closed and every queued pack has been given to Decode (each only   *)
(* if the decoder declares it); wg.Done() comes after that, and nothing    *)
(* is decoded afterwards.                                                  *)
(***************************************************************************)
C22_Counts ==
    /\ setRunnerCalls = (IF wantsRunner /\ drPc # "start" THEN 1 ELSE 0)
    /\ decShutdowns = (IF wantsShutdown /\ drPc \in {"stopped", "done"} THEN 1 ELSE 0)
    /\ drDone = (IF drPc = "done" THEN 1 ELSE 0)
    /\ drPc \in {"stopped", "done"} => (inChanClosed /\ drIn = <<>> /\ drPack = Nil)

C22_Order ==
    \* Decode is called by a started runner only
    /\ (drPc # "decode" /\ drPc' = "decode") => (wantsRunner => setRunnerCalls = 1)
    \* the loop is left with the queue closed and drained, no pack in hand
    /\ (drPc' = "stopped" /\ drPc # "stopped") =>
          /\ inChanClosed /\ drIn = <<>> /\ drPc = "idle" /\ drPack = Nil
          /\ drPacks = <<>>
    /\ decShutdowns' # decShutdowns => (drPc' = "stopped" /\ drPc # "stopped")
    \* wg.Done() follows Shutdown
    /\ drDone' # drDone => drPc = "stopped"
    \* once out of the loop, never back in it
    /\ drPc \in {"stopped", "done"} => drPc' \in {"stopped", "done"}

C22_DecoderLifecycle == [] C22_Counts /\ [][C22_Order]_vars

\* the queue was closed with a pack still on it; that pack has been decoded, the
\* decoder shut down and the wait group signalled
C22_Witness ==
    /\ drPc = "done"
    /\ closedWith >= 1
    /\ wantsRunner /\ wantsShutdown
    /\ setRunnerCalls = 1 /\ decShutdowns = 1 /\ drDone = 1

(***************************************************************************)
(* FileOutput.Run: the receiver and the committer goroutines, the          *)
(* unbuffered batchChan between them and backChan for the hand-back        *)
(***************************************************************************)
\* messages the router delivers to the output before its queue is closed
MaxMsgs == 3

\* SIGHUPs the committer is sent
MaxHups == 1

\* o.backChan = make(chan []byte, 2)
BackChanSize == 2

\* the two buffers: the receiver's first outBatch and the committer's initBatch
RcBuf == 1
InitBuf == 2

NoBatch == [buf |-> 0, data |-> <<>>]

\* make([]byte, 0, 10000), counted in messages
BatchCap == 2

\* cap(b): the two made buffers have BatchCap, an array append allocated has the
\* capacity it was given
Cap(b) == IF b <= InitBuf THEN BatchCap ELSE grown[b - InitBuf]

\* append(outBatch, outBytes...): in place while the capacity lasts, otherwise into
\* a new and larger array, which the slice refers to from then on
append(batch, m) ==
    IF Len(batch.data) < Cap(batch.buf)
       THEN [batch EXCEPT !.data = Append(@, m)]
       ELSE [buf |-> InitBuf + Len(grown) + 1, data |-> Append(batch.data, m)]

notFile == <<supVars, retVars, pipeVars, sbVars, lifeVars, luaVars>>

\* or.LogError(e), or a step that logs nothing
FileLogs(line) == fileLog' = line

\* the router hands the output runner a pack: its message is the next one
Deliver ==
    /\ runPc = "wait"
    /\ ~fInClosed
    /\ fSent < MaxMsgs
    /\ HasRoom(fIn)
    /\ fSent' = fSent + 1
    /\ fIn' = Append(fIn, fSent + 1)
    /\ FileLogs("")
    /\ UNCHANGED <<fInClosed, fRecycled, rcPc, rcBatch, batchClosed, backChan, cmPc,
                   cmBatch, file, fileOpen, accepted, writeFailed, hups, wgFile, runPc>>
    /\ UNCHANGED <<grown, notFile>>

\* shutdown closes the output runner's inbound queue
CloseFileIn ==
    /\ runPc = "wait"
    /\ ~fInClosed
    /\ fInClosed' = TRUE
    /\ FileLogs("")
    /\ UNCHANGED <<fIn, fSent, fRecycled, rcPc, rcBatch, batchClosed, backChan, cmPc,
                   cmBatch, file, fileOpen, accepted, writeFailed, hups, wgFile, runPc>>
    /\ UNCHANGED <<grown, notFile>>

\* receiver: ticker, outBatch := make([]byte, 0, 10000), inChan := or.InChan()
rc_Start ==
    /\ rcPc = "start"
    /\ rcPc' = "select"
    /\ rcBatch' = [buf |-> RcBuf, data |-> <<>>]
    /\ FileLogs("")
    /\ UNCHANGED <<fIn, fInClosed, fSent, fRecycled, batchClosed, backChan, cmPc,
                   cmBatch, file, fileOpen, accepted, writeFailed, hups, wgFile, runPc>>
    /\ UNCHANGED <<grown, notFile>>

\* case pack, ok = <-inChan with a pack: handleMessage; an error is logged, otherwise
\* the bytes are appended to outBatch, which moves to a larger array when it has
\* outgrown its own; pack.Recycle()
rc_Receive ==
    /\ rcPc = "select"
    /\ fIn # <<>>
    /\ fIn' = Tail(fIn)
    /\ \E e \in BOOLEAN :
          IF e THEN /\ FileLogs("Can't encode")
                    /\ UNCHANGED <<rcBatch, accepted, grown>>
               ELSE /\ FileLogs("")
                    /\ rcBatch' = append(rcBatch, Head(fIn))
                    /\ grown' = IF rcBatch'.buf = rcBatch.buf
                                   THEN grown
                                   ELSE Append(grown, 2 * Cap(rcBatch.buf))
                    /\ accepted' = Append(accepted, Head(fIn))
    /\ fRecycled' = fRecycled + 1
    /\ UNCHANGED <<fInClosed, fSent, rcPc, batchClosed, backChan, cmPc, cmBatch, file,
                   fileOpen, writeFailed, hups, wgFile, runPc>>
    /\ UNCHANGED notFile

\* case <-ticker with len(outBatch) > 0: on to o.batchChan <- outBatch
rc_Tick ==
    /\ rcPc = "select"
    /\ rcBatch.data # <<>>
    /\ rcPc' = "send"
    /\ FileLogs("")
    /\ UNCHANGED <<fIn, fInClosed, fSent, fRecycled, rcBatch, batchClosed, backChan,
                   cmPc, cmBatch, file, fileOpen, accepted, writeFailed, hups, wgFile,
                   runPc>>
    /\ UNCHANGED <<grown, notFile>>

\* case pack, ok = <-inChan with ok false: flush a non-empty batch, then close
rc_Closed ==
    /\ rcPc = "select"
    /\ fIn = <<>>
    /\ fInClosed
    /\ rcPc' = IF rcBatch.data # <<>> THEN "flush" ELSE "closing"
    /\ FileLogs("")
    /\ UNCHANGED <<fIn, fInClosed, fSent, fRecycled, rcBatch, batchClosed, backChan,
                   cmPc, cmBatch, file, fileOpen, accepted, writeFailed, hups, wgFile,
                   runPc>>
    /\ UNCHANGED <<grown, notFile>>

\* a receiver that goes on filling the buffer it has just handed over
Handoff_KeepsBuffer ==
    /\ rcPc \in {"send", "flush"}
    /\ cmPc = "select"
    /\ cmBatch' = rcBatch
    /\ rcBatch' = [rcBatch EXCEPT !.data = <<>>]
    /\ rcPc' = IF rcPc = "send" THEN "select" ELSE "closing"
    /\ cmPc' = "write"
    /\ FileLogs("")
    /\ UNCHANGED <<fIn, fInClosed, fSent, fRecycled, batchClosed, backChan, file,
                   fileOpen, accepted, writeFailed, hups, wgFile, runPc>>
    /\ UNCHANGED <<grown, notFile>>

\* o.batchChan <- outBatch meets case outBatch, ok = <-o.batchChan: the channel is
\* unbuffered, the send and the receive are one step.  The receiver does not touch
\* the buffer again.
Handoff ==
    /\ rcPc \in {"send", "flush"}
    /\ cmPc = "select"
    /\ cmBatch' = rcBatch
    /\ rcBatch' = NoBatch
    /\ rcPc' = IF rcPc = "send" THEN "back" ELSE "closing"
    /\ cmPc' = "write"
    /\ FileLogs("")
    /\ UNCHANGED <<fIn, fInClosed, fSent, fRecycled, batchClosed, backChan, file,
                   fileOpen, accepted, writeFailed, hups, wgFile, runPc>>
    /\ UNCHANGED <<grown, notFile>>

\* a receiver that makes itself a new buffer after every hand-over
rc_Back_Allocates ==
    /\ rcPc = "back"
    /\ rcBatch' = [buf |-> RcBuf, data |-> <<>>]
    /\ rcPc' = "select"
    /\ FileLogs("")
    /\ UNCHANGED <<fIn, fInClosed, fSent, fRecycled, batchClosed, backChan, cmPc,
                   cmBatch, file, fileOpen, accepted, writeFailed, hups, wgFile, runPc>>
    /\ UNCHANGED <<grown, notFile>>

\* outBatch = <-o.backChan: blocks while backChan is empty
rc_Back ==
    /\ rcPc = "back"
    /\ backChan # <<>>
    /\ rcBatch' = [buf |-> Head(backChan), data |-> <<>>]
    /\ backChan' = Tail(backChan)
    /\ rcPc' = "select"
    /\ FileLogs("")
    /\ UNCHANGED <<fIn, fInClosed, fSent, fRecycled, batchClosed, cmPc, cmBatch, file,
                   fileOpen, accepted, writeFailed, hups, wgFile, runPc>>
    /\ UNCHANGED <<grown, notFile>>

\* a receiver that leaves without flushing its batch
rc_Close_NoFlush ==
    /\ rcPc \in {"closing", "flush"}
    /\ batchClosed' = TRUE
    /\ rcPc' = "done"
    /\ wgFile' = wgFile + 1
    /\ FileLogs("")
    /\ UNCHANGED <<fIn, fInClosed, fSent, fRecycled, rcBatch, backChan, cmPc, cmBatch,
                   file, fileOpen, accepted, writeFailed, hups, runPc>>
    /\ UNCHANGED <<grown, notFile>>

\* close(o.batchChan); the loop ends, ok being false; wg.Done()
rc_Close ==
    /\ rcPc = "closing"
    /\ batchClosed' = TRUE
    /\ rcPc' = "done"
    /\ wgFile' = wgFile + 1
    /\ FileLogs("")
    /\ UNCHANGED <<fIn, fInClosed, fSent, fRecycled, rcBatch, backChan, cmPc, cmBatch,
                   file, fileOpen, accepted, writeFailed, hups, runPc>>
    /\ UNCHANGED <<grown, notFile>>

\* committer: initBatch := make([]byte, 0, 10000); o.backChan <- initBatch
cm_Start ==
    /\ cmPc = "start"
    /\ Len(backChan) < BackChanSize
    /\ backChan' = Append(backChan, InitBuf)
    /\ cmPc' = "select"
    /\ FileLogs("")
    /\ UNCHANGED <<fIn, fInClosed, fSent, fRecycled, rcPc, rcBatch, batchClosed,
                   cmBatch, file, fileOpen, accepted, writeFailed, hups, wgFile, runPc>>
    /\ UNCHANGED <<grown, notFile>>

\* n, err := o.file.Write(outBatch): all of it written (and synced), or an error or
\* a short write, logged, with less than all of it in the file; outBatch[:0]
cm_Write ==
    /\ cmPc = "write"
    /\ \/ /\ file' = file \o cmBatch.data
          /\ FileLogs("")
          /\ UNCHANGED writeFailed
       \/ /\ \E k \in 0..(Len(cmBatch.data) - 1) :
                file' = file \o SubSeq(cmBatch.data, 1, k)
          /\ \E line \in {"Can't write", "Truncated output"} : FileLogs(line)
          /\ writeFailed' = TRUE
    /\ cmBatch' = [cmBatch EXCEPT !.data = <<>>]
    /\ cmPc' = "back"
    /\ UNCHANGED <<fIn, fInClosed, fSent, fRecycled, rcPc, rcBatch, batchClosed,
                   backChan, fileOpen, accepted, hups, wgFile, runPc>>
    /\ UNCHANGED <<grown, notFile>>

\* o.backChan <- outBatch: blocks while backChan is full
cm_Back ==
    /\ cmPc = "back"
    /\ Len(backChan) < BackChanSize
    /\ backChan' = Append(backChan, cmBatch.buf)
    /\ cmBatch' = NoBatch
    /\ cmPc' = "select"
    /\ FileLogs("")
    /\ UNCHANGED <<fIn, fInClosed, fSent, fRecycled, rcPc, rcBatch, batchClosed, file,
                   fileOpen, accepted, writeFailed, hups, wgFile, runPc>>
    /\ UNCHANGED <<grown, notFile>>

\* case <-hupChan: o.file.Close(); o.openFile(); panic if the file cannot be
\* reopened, which ends the process
cm_Hup ==
    /\ cmPc = "select"
    /\ hups < MaxHups
    /\ hups' = hups + 1
    /\ \/ UNCHANGED <<fileOpen, cmPc, rcPc, runPc>>
       \/ /\ fileOpen' = FALSE
          /\ cmPc' = "panic"
          /\ rcPc' = "panic"
          /\ runPc' = "panic"
    /\ FileLogs("")
    /\ UNCHANGED <<fIn, fInClosed, fSent, fRecycled, rcBatch, batchClosed, backChan,
                   cmBatch, file, accepted, writeFailed, wgFile>>
    /\ UNCHANGED <<grown, notFile>>

\* case outBatch, ok = <-o.batchChan with ok false: the loop ends; o.file.Close();
\* wg.Done()
cm_Closed ==
    /\ cmPc = "select"
    /\ batchClosed
    /\ fileOpen' = FALSE
    /\ cmPc' = "done"
    /\ wgFile' = wgFile + 1
    /\ FileLogs("")
    /\ UNCHANGED <<fIn, fInClosed, fSent, fRecycled, rcPc, rcBatch, batchClosed,
                   backChan, cmBatch, file, accepted, writeFailed, hups, runPc>>
    /\ UNCHANGED <<grown, notFile>>

\* wg.Wait() returns after both Done calls; Run returns err, which nothing has set
Run_Return ==
    /\ runPc = "wait"
    /\ wgFile = 2
    /\ runPc' = "returned"
    /\ FileLogs("")
    /\ UNCHANGED <<fIn, fInClosed, fSent, fRecycled, rcPc, rcBatch, batchClosed,
                   backChan, cmPc, cmBatch, file, fileOpen, accepted, writeFailed, hups,
                   wgFile>>
    /\ UNCHANGED <<grown, notFile>>

receiver == rc_Start \/ rc_Receive \/ rc_Tick \/ rc_Closed \/ rc_Back \/ rc_Close

committer == cm_Start \/ cm_Write \/ cm_Back \/ cm_Hup \/ cm_Closed

NextFile ==
    \/ Deliver
    \/ CloseFileIn
    \/ receiver
    \/ Handoff
    \/ committer
    \/ Run_Return

SpecFile == InitPipeline /\ [][NextFile]_vars

\* both goroutines and Run's own are scheduled; the router and whoever closes
\* the queue owe nothing
FairFile ==
    /\ SpecFile
    /\ WF_vars(receiver \/ Handoff)
    /\ WF_vars(committer \/ Handoff)
    /\ WF_vars(Run_Return)

(***************************************************************************)
(* C23  FileOutput responds to the closing of its inbound channel: the     *)
(* receiver hands a non-empty pending batch to the committer and closes    *)
(* batchChan, the committer writes the batch and closes the file, both     *)
(* goroutines finish and Run returns nil; by then every message accepted   *)
(* into a batch is in the file, in arrival order.                          *)
(***************************************************************************)
\* batchChan is closed by a receiver that has seen the closed, drained queue and
\* has nothing pending
C23_CloseStep ==
    (batchClosed' /\ ~batchClosed) =>
       (fInClosed /\ fIn = <<>> /\ rcBatch.data = <<>> /\ rcPc = "closing")

C23_Finished ==
    runPc = "returned" =>
       /\ rcPc = "done" /\ cmPc = "done"
       /\ batchClosed /\ ~fileOpen
       /\ fInClosed /\ fIn = <<>>

C30_RoomForSend ==
    /\ Len(backChan) <= BackChanSize
    /\ cmPc \in {"start", "back"} => Len(backChan) < BackChanSize

C30_BufferWaiting == rcPc = "back" => backChan # <<>>

C30_HandBackNeverBlocks ==
    /\ [] C30_RoomForSend
    /\ [] C30_BufferWaiting
    /\ (rcPc = "back" ~> rcPc # "back")

\* the committer hands back the flushed last batch while the other buffer is
\* still queued on backChan
C30_Witness ==
    /\ cmPc = "back"
    /\ Len(backChan) = 1
    /\ rcPc \in {"closing", "done"}

(***************************************************************************)
(* An input and a filter injecting into a router whose outputs have        *)
(* stopped reading: the router backs up, its inbound queue fills           *)
(***************************************************************************)
InitInject ==
    /\ InitSupState
    /\ restarting = [r \in Runners |-> TRUE]
    /\ hasWrapper = TRUE
    /\ maxRetries = MaxRetriesLimit
    /\ foKind = "filter"
    /\ InitRet
    /\ InitIdle
    /\ InitPool(InjectPoolSize)
    /\ InitStarted

NextInject ==
    \/ in_Acquire
    \/ in_Inject
    \/ rt_Receive
    \/ rt_Handoff
    \/ flt_Receive
    \/ flt_NewPack
    \/ fo_Inject
    \/ go_Inject
    \/ flt_Recycle

SpecInject == InitInject /\ [][NextInject]_vars

(***************************************************************************)
(* C24  foRunner.Inject of a pack its own matcher does not accept never    *)
(* blocks the filter: it can return, and returns true, whether or not the  *)
(* router's inbound queue has room, without sending; the pack is put on    *)
(* the router's inbound queue afterwards, once.                            *)
(***************************************************************************)
\* how many times x occurs in the sequence q
Count(q, x) == Cardinality({i \in 1..Len(q) : q[i] = x})

\* a filter holding a pack to inject can always complete the call
C24_CanReturn == fltNew # Nil => ENABLED fo_Inject

C24_Returns ==
    (fltNew # Nil /\ fltNew' = Nil /\ ~ Match("flt", msg[fltNew])) =>
       /\ injectRet' = "true"
       /\ routerIn' = routerIn
       /\ fltNew \in injecting'

\* a pack leaves its goroutine by being appended to the router's queue
C24_Sent ==
    \A p \in injecting \ injecting' :
       /\ routerIn' = Append(routerIn, p)
       /\ injecting' = injecting \ {p}

\* on its way or in the queue, never both and never twice
C24_Once ==
    \A p \in Range(fltLog) :
       Count(routerIn, p) + (IF p \in injecting THEN 1 ELSE 0) = 1

C24_InjectNeverBlocks ==
    /\ [] C24_CanReturn
    /\ [] C24_Once
    /\ [][C24_Returns /\ C24_Sent]_vars

\* Inject has just returned true with the router's inbound queue full
C24_Witness ==
    /\ injectRet = "true"
    /\ Len(routerIn) = RouterChanSize
    /\ injecting # {}
    /\ fltNew = Nil

(***************************************************************************)
(* C25  The retry budget counts the failed attempts of the current         *)
(* createLoop only: a successful re-creation resets the retry helper, so   *)
(* outside a createLoop its count is zero, inside it is the number of      *)
(* failures since the last success, and a runner calls ShutDown for        *)
(* exhaustion only after max_retries + 1 failures in a row.                *)
(***************************************************************************)
C25_Helper ==
    \A r \in Runners :
       /\ pc[r] \in {"running", "ran"} => times[r] = 0
       \* a createLoop is left with attempts counted only when the process is stopping
       /\ pc[r] = "loop" => (times[r] = 0 \/ Stopping)
       /\ pc[r] = "create" => times[r] = fails[r]

C25_Steps ==
    \A r \in Runners :
       \* a success resets the helper and asks for no shutdown
       /\ made'[r] # made[r] =>
             (times'[r] = 0 /\ pc'[r] = "loop" /\ shutDownCalls'[r] = shutDownCalls[r])
       \* a createLoop ends in ShutDown only with its own budget spent
       /\ (pc[r] = "create" /\ shutDownCalls'[r] # shutDownCalls[r]) =>
             fails[r] = maxRetries + 1

C25_BudgetIsPerCreateLoop ==
    /\ [] C25_Helper
    /\ [][C25_Steps]_vars
    \* a second or later successful re-creation is followed by Run as well
    /\ \A r \in Runners :
          (made[r] >= 2 /\ pc[r] = "loop") ~> (pc[r] = "running" \/ Stopping)

\* the second re-creation succeeded after max_retries failures in a row, the first
\* re-creation having used up attempts of its own; Run is executing again
C25_Witness ==
    \E r \in Runners :
       /\ maxRetries >= 1
       /\ made[r] = 2 /\ plugin[r] = 2
       /\ fails[r] = maxRetries
       /\ pc[r] = "running"
       /\ shutDownCalls[r] = 0
       /\ ~ Stopping

(***************************************************************************)
(* C26  A retained pack is delivered at most once: during the Run that     *)
(* follows RetainPack(p), whatever the plugin's InChan() calls, p is       *)
(* received from the channels InChan() returned no more than one time,     *)
(* and no goroutine started by InChan() is left blocked in its send on a   *)
(* channel the plugin has given up.                                        *)
(***************************************************************************)
\* the reads of this Run that came from a retainChan and carried a pack
RetainedReads == {i \in 1..Len(readLog) : readLog[i].via = "retain" /\ readLog[i].val # Nil}

C26_AtMostOnce == Cardinality(RetainedReads) <= 1

\* the plugin reads from the channel of its latest InChan() call only: a goroutine
\* sending on an earlier one has no receiver, now or later
C26_NoneAbandoned ==
    \A g \in RetainChans :
       (pc["fo"] = "running" /\ handle \in RetainChans /\ handle # g)
          => gor[g].st \notin {"eval", "send"}

C26_RetainedDeliveredOnce == C26_AtMostOnce /\ C26_NoneAbandoned

(***************************************************************************)
(* C27  SandboxDecoder leaks no pack: when Decode returns, every pack it   *)
(* took with NewPack during the call is in the slice it returns or is      *)
(* back in the pool, also when an injection failed to decode after the     *)
(* pack had been taken.                                                    *)
(***************************************************************************)
C27_Return ==
    (sbPc = "script" /\ sbPc' = "idle") =>
       \A p \in taken :
          \/ \E i \in 1..Len(drSlice') : drSlice'[i] = p
          \/ Cardinality({i \in 1..Len(pool') : pool'[i] = p}) = 1

C27_NoPackLeaked == [][C27_Return]_vars

(***************************************************************************)
(* C29  The error SandboxDecoder.Decode returns is that of the current     *)
(* call: when ProcessMessage returns 0 Decode returns a nil error,         *)
(* whatever happened to earlier messages, and the decoder runner logs no   *)
(* decoder error for that message.                                         *)
(***************************************************************************)
C29_NilOnZero == ReturnStep("zero") => ~ drErr'

C29_NoStaleLog ==
    (drPc = "decoded" /\ drPc' # "decoded" /\ sbRet = "zero") =>
       pipeLog' # "Decoder error"

C29_ErrorOfThisCall == [][C29_NilOnZero /\ C29_NoStaleLog]_vars

(***************************************************************************)
(* C28  A decoder's request for an extra pack makes progress: a NewPack    *)
(* call made by the inject callback during Decode returns in the end, the  *)
(* router recycling what it is sent; the decoder is never left waiting on  *)
(* an empty pool whose packs are all with the input, on the decoder's own  *)
(* inbound queue or in the batch it is building.                           *)
(***************************************************************************)
\* nobody but the waiting decoder and the input behind it has a pack
C28_Stuck ==
    /\ sbWait
    /\ pool = <<>>
    /\ routerIn = <<>> /\ rtPack = Nil
    /\ \A p \in Existing :
          p \in {inHeld} \cup Range(drIn) \cup Range(sPacks) \cup dropped

C28_NewPackReturns ==
    /\ [] ~ C28_Stuck
    /\ (sbWait ~> ~ sbWait)

(***************************************************************************)
(* C31  FileOutput's two batch buffers are exclusively owned: the buffer   *)
(* the receiver is appending to is never the buffer the committer is       *)
(* writing to the file, and each buffer in use is in exactly one place:    *)
(* held by the receiver, held by the committer, or queued in backChan.     *)
(* A batch that outgrows its array is continued in a new one, which takes  *)
(* the old one's place.                                                    *)
(***************************************************************************)
\* the buffers some goroutine or backChan refers to
InUse == ({rcBatch.buf, cmBatch.buf} \cup Range(backChan)) \ {NoBatch.buf}

\* the number of places a buffer is in
Places(b) ==
    (IF rcBatch.buf = b THEN 1 ELSE 0) + (IF cmBatch.buf = b THEN 1 ELSE 0)
       + Count(backChan, b)

\* the receiver has a buffer wherever it appends or sends, the committer wherever
\* it writes or hands back
C31_Holding ==
    /\ rcPc \in {"select", "send", "flush"} => rcBatch.buf # NoBatch.buf
    /\ cmPc \in {"write", "back"} => cmBatch.buf # NoBatch.buf

C31_Apart == rcBatch.buf # NoBatch.buf => rcBatch.buf # cmBatch.buf

C31_TwoInUse ==
    /\ Cardinality(InUse) <= 2
    /\ (rcPc \notin {"start", "panic"} /\ cmPc \notin {"start", "panic"}) =>
          Cardinality(InUse) = 2

C31_BuffersExclusive ==
    /\ C31_Holding
    /\ C31_Apart
    /\ C31_TwoInUse
    /\ \A b \in InUse : Places(b) = 1

\* the committer is writing a batch that had outgrown the receiver's first buffer
\* while the receiver fills the buffer it took from backChan
C31_Witness ==
    /\ cmPc = "write"
    /\ cmBatch.buf > InitBuf
    /\ Len(cmBatch.data) > BatchCap
    /\ rcPc = "select"
    /\ rcBatch.buf = InitBuf
    /\ backChan = <<>>

(***************************************************************************)
(* The http_status filter script: process_message and timer_event, each    *)
(* run to its end by the host before the next call                         *)
(***************************************************************************)
\* process_message calls and ticks of a run
MaxCalls == 3
MaxTicks == 2

notLua == <<supVars, retVars, pipeVars, sbVars, lifeVars, fileVars>>

ZeroRow == [col \in Columns |-> 0]

\* the buffer covers the Rows rows up to its current one, and moves on to any
\* later row it is given
InWindow(cb, t) == t > cb.time \/ cb.time - t < Rows

\* moving on to row t clears the rows passed on the way, t included
Advance(cb, t) ==
    IF t > cb.time
       THEN [time |-> t,
             cells |-> [r \in 0..(Rows - 1) |->
                          IF \E k \in (cb.time + 1)..t : k % Rows = r
                             THEN ZeroRow
                             ELSE cb.cells[r]]]
       ELSE cb

\* status:add(ts, column, value): added to the cell of ts's row; a time before the
\* window changes nothing
cb_add(cb, t, col, v) ==
    IF InWindow(cb, t)
       THEN [Advance(cb, t) EXCEPT !.cells[t % Rows][col] = @ + v]
       ELSE cb

\* the if / elseif chain of process_message
Column(sc) ==
    IF sc >= 200 /\ sc < 300 THEN HTTP_200
    ELSE IF sc >= 300 /\ sc < 400 THEN HTTP_300
    ELSE IF sc >= 400 /\ sc < 500 THEN HTTP_400
    ELSE IF sc >= 500 /\ sc < 600 THEN HTTP_500
    ELSE HTTP_UNKNOWN

\* process_message(): `sc >= 200` with sc nil or a string is an error, "attempt to
\* compare"; the call ends there, nothing added, and the host is given a failure
\* and terminates the script.  Otherwise one status:add and return 0.
process_message ==
    /\ ~luaDead
    /\ luaCalls < MaxCalls
    /\ luaCalls' = luaCalls + 1
    /\ \E m \in Messages :
          /\ luaMsg' = m
          /\ IF m.sc.type # "number"
                THEN /\ luaRet' = 1
                     /\ luaDead' = TRUE
                     /\ UNCHANGED status
                ELSE /\ status' = cb_add(status, m.ts, Column(m.sc.n), 1)
                     /\ luaRet' = 0
                     /\ UNCHANGED luaDead
    /\ UNCHANGED <<luaTicks, luaInjected>>
    /\ UNCHANGED notLua

\* timer_event(ns): inject_message(status, "HTTP Status")
timer_event ==
    /\ ~luaDead
    /\ luaTicks < MaxTicks
    /\ luaTicks' = luaTicks + 1
    /\ luaInjected' = luaInjected + 1
    /\ UNCHANGED <<status, luaMsg, luaRet, luaDead, luaCalls>>
    /\ UNCHANGED notLua

NextLua == process_message \/ timer_event

SpecLua == InitPipeline /\ [][NextLua]_vars

(***************************************************************************)
(* C32  For every input message the http_status filter's process_message   *)
(* adds 1 to exactly one of the five counters, the one Fields[status]      *)
(* selects (HTTP_200 for 200..299, HTTP_300 for 300..399, HTTP_400 for     *)
(* 400..499, HTTP_500 for 500..599, HTTP_UNKNOWN for anything else, a      *)
(* message without that field included), returns 0 and injects no          *)
(* message; messages are injected only by timer_event, one per tick.       *)
(***************************************************************************)
\* the counter the claim names for a value of Fields[status]
C32_Selected(sc) ==
    IF sc.type # "number" THEN HTTP_UNKNOWN
    ELSE IF sc.n \in 200..299 THEN HTTP_200
    ELSE IF sc.n \in 300..399 THEN HTTP_300
    ELSE IF sc.n \in 400..499 THEN HTTP_400
    ELSE IF sc.n \in 500..599 THEN HTTP_500
    ELSE HTTP_UNKNOWN

\* one more in the selected column of the message's row, every other cell as the
\* buffer has it on reaching that row; a timestamp the buffer no longer covers
\* is not asked about
C32_OneAdded ==
    InWindow(status, luaMsg'.ts) =>
       status'.cells =
          [Advance(status, luaMsg'.ts).cells
              EXCEPT ![luaMsg'.ts % Rows][C32_Selected(luaMsg'.sc)] = @ + 1]

C32_ProcessStep ==
    luaCalls' # luaCalls =>
       /\ C32_OneAdded
       /\ luaRet' = 0
       /\ luaInjected' = luaInjected

C32_TimerStep ==
    luaInjected' # luaInjected =>
       /\ luaTicks' = luaTicks + 1
       /\ luaInjected' = luaInjected + 1
       /\ luaCalls' = luaCalls

C32_CountedOnce == [][C32_ProcessStep /\ C32_TimerStep]_vars

\* what the script does do: the same, for the messages whose Fields[status] is a
\* number
C32_NumbersCounted ==
    [][(luaMsg'.sc.type = "number" => C32_ProcessStep) /\ C32_TimerStep]_vars

====
